---------------------------- MODULE Spec2Model ----------------------------
(***************************************************************************)
(* Client-side video compositor of LoopGenie: stitchVideoFrames (image     *)
(* sequence + optional audio -> recorded video), cropVideo (re-recording   *)
(* of a playing video through a canvas) and the cover-fit geometry both    *)
(* share.  The model follows the JavaScript event loop: every action is    *)
(* one task (a handler or the code between two awaits) run to completion.  *)
(***************************************************************************)
EXTENDS Integers, Sequences, FiniteSets, TLC

(***************************************************************************)
(* Bounds of the model and constants of the program.                       *)
(***************************************************************************)
MaxDim == 4              \* geometry inputs range over the grid 1..MaxDim
MaxImages == 2           \* longest image list passed to stitchVideoFrames
IoMs == 29000            \* how long one slow fetch / load / decode takes
MaxFrames == 3           \* animation frames followed in cropVideo
MaxChunks == 3           \* dataavailable events one recorder fires
MaxTracks == 2           \* tracks a stream is imagined to expose
MaxWords == 2            \* words in the message of an upstream error
MaxScenes == 6           \* most scenes a story response carries
MaxPolls == 3            \* polls of a video operation that are counted
MaxCredits == 3          \* largest credits_balance stored at the start
MaxAmount == 2           \* largest amount or cost of one call
MaxCalls == 2            \* invocations of deductCredits in one behaviour
MaxProjects == 2         \* project ids that are saved

DefaultDurationMs == 5000    \* durationPerImageMs = 5000
StitchTimeoutMs == 30000     \* setTimeout(..., 30000) in stitchVideoFrames
CropTimeoutMs == 60000       \* setTimeout(..., 60000) in cropVideo
RequiredScenes == 5          \* manifest.scenes.length !== 5
DefaultCredits == 5      \* credits_balance of the default profile
CaptureVideoTracks == 1      \* canvas.captureStream(30) has one video track
DestinationAudioTracks == 1  \* a MediaStreamAudioDestinationNode has one audio track
FrameMs == 1000 \div 30      \* setTimeout(r, 1000 / 30): the delay is a WebIDL long

CallerDurationsMs == {DefaultDurationMs, 15000}   \* durationPerImageMs arguments tried
AudioDurationsMs == {1000, 3000}                  \* audioBuffer.duration * 1000 values tried
LongAudioDurationsMs == {StitchTimeoutMs}           \* and of an audio file as long as the deadline

mimeTypes == <<"video/webm; codecs=vp9", "video/webm; codecs=vp8", "video/webm", "video/mp4">>
AllTypes == {mimeTypes[i] : i \in 1..Len(mimeTypes)}
\* what MediaRecorder.isTypeSupported accepts in the runtimes tried
SupportedSets == {AllTypes, {"video/mp4"}, {}}

(***************************************************************************)
(* JavaScript numbers.  The geometry divides and multiplies integers in    *)
(* IEEE-754 binary64 with round-to-nearest-even.  A positive number is     *)
(* [e, f]: e the exponent of its leading bit and f the 52 fraction bits    *)
(* after that bit, as four digits of 13 bits, most significant first.      *)
(* Arguments are positive integers below 2^13.                             *)
(***************************************************************************)
RECURSIVE Pow2(_)
Pow2(k) == IF k = 0 THEN 1 ELSE 2 * Pow2(k - 1)

Digit == Pow2(13)

RECURSIVE BitLen(_)
BitLen(n) == IF n = 0 THEN 0 ELSE 1 + BitLen(n \div 2)

\* Number(n) for a positive integer n: exact.
FromInt(n) ==
    LET e == BitLen(n) - 1
    IN [e |-> e, f |-> <<(n - Pow2(e)) * Pow2(13 - e), 0, 0, 0>>]

\* Round-to-nearest-even of the 53 bits 1.f with exponent e, given whether
\* the discarded tail is above, at or below one half of the last kept place
\* (tail = 1, 0, -1).  A carry out of the fraction moves to the next binade.
RoundNearestEven(e, f, tail) ==
    LET up == tail = 1 \/ (tail = 0 /\ f[4] % 2 = 1)
    IN IF ~up THEN [e |-> e, f |-> f]
       ELSE IF f[4] + 1 < Digit THEN [e |-> e, f |-> <<f[1], f[2], f[3], f[4] + 1>>]
       ELSE IF f[3] + 1 < Digit THEN [e |-> e, f |-> <<f[1], f[2], f[3] + 1, 0>>]
       ELSE IF f[2] + 1 < Digit THEN [e |-> e, f |-> <<f[1], f[2] + 1, 0, 0>>]
       ELSE IF f[1] + 1 < Digit THEN [e |-> e, f |-> <<f[1] + 1, 0, 0, 0>>]
       ELSE [e |-> e + 1, f |-> <<0, 0, 0, 0>>]

RECURSIVE ShiftUp(_, _)
\* largest k with b * 2^k <= a (a >= b > 0)
ShiftUp(a, b) == IF 2 * b <= a THEN 1 + ShiftUp(a, 2 * b) ELSE 0

RECURSIVE ShiftDown(_, _)
\* smallest k with a * 2^k >= b (0 < a)
ShiftDown(a, b) == IF a >= b THEN 0 ELSE 1 + ShiftDown(2 * a, b)

\* a / b for positive integers a and b, as JavaScript evaluates it: long
\* division of the operands scaled into [1, 2), one digit at a time.
DivInt(a, b) ==
    LET e == IF a >= b THEN ShiftUp(a, b) ELSE 0 - ShiftDown(a, b)
        A == IF e >= 0 THEN a ELSE a * Pow2(0 - e)
        B == IF e >= 0 THEN b * Pow2(e) ELSE b
        r0 == A - B
        r1 == (r0 * Digit) % B
        r2 == (r1 * Digit) % B
        r3 == (r2 * Digit) % B
        r4 == (r3 * Digit) % B
        f == <<(r0 * Digit) \div B, (r1 * Digit) \div B,
               (r2 * Digit) \div B, (r3 * Digit) \div B>>
        tail == IF 2 * r4 > B THEN 1 ELSE IF 2 * r4 = B THEN 0 ELSE -1
    IN RoundNearestEven(e, f, tail)

\* h * v for a positive integer h and a number v, as JavaScript evaluates
\* it: the exact product digit by digit, then shifted back to 53 bits.
MulInt(h, v) ==
    LET t4 == h * v.f[4]
        t3 == h * v.f[3] + (t4 \div Digit)
        t2 == h * v.f[2] + (t3 \div Digit)
        t1 == h * v.f[1] + (t2 \div Digit)
        top == h + (t1 \div Digit)
        p1 == t1 % Digit
        p2 == t2 % Digit
        p3 == t3 % Digit
        p4 == t4 % Digit
        d == BitLen(top) - 1
        S == Pow2(d)
        U == Digit \div S
        f == <<(top % S) * U + (p1 \div S), (p1 % S) * U + (p2 \div S),
               (p2 % S) * U + (p3 \div S), (p3 % S) * U + (p4 \div S)>>
        dropped == p4 % S
        tail == IF 2 * dropped > S THEN 1 ELSE IF 2 * dropped = S THEN 0 ELSE -1
    IN RoundNearestEven(v.e + d, f, tail)

\* sign of v - w for two positive numbers
Cmp(v, w) ==
    IF v.e # w.e THEN (IF v.e > w.e THEN 1 ELSE -1)
    ELSE IF v.f[1] # w.f[1] THEN (IF v.f[1] > w.f[1] THEN 1 ELSE -1)
    ELSE IF v.f[2] # w.f[2] THEN (IF v.f[2] > w.f[2] THEN 1 ELSE -1)
    ELSE IF v.f[3] # w.f[3] THEN (IF v.f[3] > w.f[3] THEN 1 ELSE -1)
    ELSE IF v.f[4] # w.f[4] THEN (IF v.f[4] > w.f[4] THEN 1 ELSE -1)
    ELSE 0

(***************************************************************************)
(* Cover-fit geometry.  renderW and renderH are JavaScript numbers;        *)
(* offsetX and offsetY hold the sign of the offset the code computes,      *)
(* (canvas size - render size) / 2: the subtraction of these operands and  *)
(* the halving are exact, so the sign is that of canvas size - render size.*)
(***************************************************************************)
\* stitchVideoFrames, "Calculate Object Cover logic"
CoverGeometry(naturalWidth, naturalHeight, canvasWidth, canvasHeight) ==
    LET imgRatio == DivInt(naturalWidth, naturalHeight)
        targetRatio == DivInt(canvasWidth, canvasHeight)
    IN IF Cmp(imgRatio, targetRatio) = 1
       THEN \* Image is wider than target
            LET renderW == MulInt(naturalWidth, DivInt(canvasHeight, naturalHeight))
            IN [renderW |-> renderW, renderH |-> FromInt(canvasHeight),
                offsetX |-> Cmp(FromInt(canvasWidth), renderW), offsetY |-> 0]
       ELSE \* Image is taller than target
            LET renderH == MulInt(naturalHeight, DivInt(canvasWidth, naturalWidth))
            IN [renderW |-> FromInt(canvasWidth), renderH |-> renderH,
                offsetX |-> 0, offsetY |-> Cmp(FromInt(canvasHeight), renderH)]

\* cropVideo.renderFrame, "Object Cover Logic"
CropGeometry(videoWidth, videoHeight, canvasWidth, canvasHeight) ==
    LET vidRatio == DivInt(videoWidth, videoHeight)
        targetRatio == DivInt(canvasWidth, canvasHeight)
    IN IF Cmp(vidRatio, targetRatio) = 1
       THEN \* Video is wider
            LET renderW == MulInt(videoWidth, DivInt(canvasHeight, videoHeight))
            IN [renderW |-> renderW, renderH |-> FromInt(canvasHeight),
                offsetX |-> Cmp(FromInt(canvasWidth), renderW), offsetY |-> 0]
       ELSE \* Video is taller
            LET renderH == MulInt(videoHeight, DivInt(canvasWidth, videoWidth))
            IN [renderW |-> FromInt(canvasWidth), renderH |-> renderH,
                offsetX |-> 0, offsetY |-> Cmp(FromInt(canvasHeight), renderH)]

\* Sizes the application itself produces or asks for, beside the grid: the
\* portrait and landscape targets, and sources of a few shapes.
SourceSizes == {<<800, 600>>, <<600, 800>>, <<800, 800>>, <<693, 1232>>, <<624, 351>>}
TargetSizes == {<<720, 1280>>, <<1280, 720>>}
GeometryInputs ==
    [srcW : 1..MaxDim, srcH : 1..MaxDim, targetW : 1..MaxDim, targetH : 1..MaxDim]
    \cup {[srcW |-> s[1], srcH |-> s[2], targetW |-> g[1], targetH |-> g[2]] :
             s \in SourceSizes, g \in TargetSizes}

VARIABLES
    geoIn,      \* the sizes handed to the geometry
    geoOut      \* [site |-> "none"], or [site, rect]: the rectangle a draw site computed

geoVars == <<geoIn, geoOut>>

VARIABLES
    cfgIn,      \* what the runtime offers the recorder preparation
    cfgOut      \* [site |-> "none"], or [site, tracks, mimeType, constructed]

cfgVars == <<cfgIn, cfgOut>>

VARIABLES
    other       \* [inp, run]: a second invocation, while the first one is followed

VARIABLES
    svc,        \* a call of a generation service: its arguments, position and outcome
    prod        \* the state of the ShortMakerEditor component during runProduction

appVars == <<svc, prod>>

\* no service call, no production run
NoCall == [fn |-> "none"]

NoProduction == [step |-> "none"]

VARIABLES
    configured, \* isSupabaseConfigured()
    profile,    \* the user's row of the profiles table: [exists, credits_balance]
    opened,     \* credits_balance when the first call was made
    calls,      \* the invocations of deductCredits in flight or finished
    gen,        \* App.handleGenerate: its arguments, component state and position
    projects,   \* localStorage['loopgenie_projects']: [stored, rows]
    ffmpeg      \* a call of ffmpegService.stitchVideoFrames

dataVars == <<configured, profile, opened, calls, gen, projects, ffmpeg>>

\* no profile, no call, nothing stored
NoData ==
    /\ configured = FALSE
    /\ profile = [exists |-> FALSE, credits_balance |-> 0]
    /\ opened = 0
    /\ calls = << >>
    /\ gen = [pc |-> "none"]
    /\ projects = [stored |-> FALSE, rows |-> << >>]
    /\ ffmpeg = [pc |-> "none"]

(***************************************************************************)
(* One invocation of stitchVideoFrames or cropVideo.                       *)
(***************************************************************************)
VARIABLES
    inp,                \* the arguments of the call and what the runtime offers
    pc,                 \* where the invocation is waiting
    now,                \* Date.now(), in ms since the call
    timeoutArmed,       \* timeoutId is set and not cleared or fired
    deadline,           \* when the timer is due
    settled,            \* state of the returned promise
    err,                \* what it was rejected with
    audioContext,       \* "null", or AudioContext.state
    audioBuffer,        \* decoded duration in ms, 0 while there is no buffer
    dest,               \* the MediaStreamAudioDestinationNode exists
    sourceNode,         \* "null", "created", "started", "stopped"
    durationPerImageMs, \* [num, den]: the number num / den (den = 0: Infinity)
    recorder,           \* "none", "inactive" (constructed), "recording", "stopped"
    tracks,             \* tracks of combinedStream
    mimeType,           \* the type chosen for the recorder
    chunks,             \* the chunks array
    delivered,          \* the dataavailable events the recorder has fired, in order
    blob,               \* the parts handed to new Blob(chunks, ...)
    flush,              \* events still owed after recorder.stop(): "data", "stop"
    idx,                \* index of the image the draw loop is on
    startTime,          \* startTime of the current image
    sleepDue,           \* when the pending frame-throttle timer is due
    drawn,              \* frames drawn per image
    window,             \* elapsed time of each finished image (-1: not finished)
    loads,              \* load requests per image (0: images[0] of an empty list)
    fetches,            \* fetch(audioUrl) calls
    urls,               \* URL.createObjectURL calls
    startCalls,         \* recorder.start() calls
    stopCalls,          \* recorder.stop() calls
    timeoutRan,         \* the timer callback has run
    onstopRan,          \* recorder.onstop has run
    audioFailed,        \* the audio try block threw
    failedLoad,         \* "none", or which loadImage rejected: "first", "loop"
    video,              \* cropVideo's video element
    playPromise,        \* video.play(): "none", "pending", "fulfilled", "rejected"
    rafPending,         \* requestAnimationFrame(renderFrame) is outstanding
    frames              \* frames drawn by renderFrame

runVars == <<pc, now, timeoutArmed, deadline, settled, err, audioContext, audioBuffer,
             dest, sourceNode, durationPerImageMs, recorder, tracks, mimeType, chunks,
             delivered, blob, flush, idx, startTime, sleepDue, drawn, window, loads, fetches, urls,
             startCalls, stopCalls, timeoutRan, onstopRan, audioFailed, failedLoad,
             video, playPromise, rafPending, frames>>

vars == <<inp, runVars, geoVars, cfgVars, other, appVars, dataVars>>

\* The state of the invocation as one record, so that the synchronous code a
\* handler runs through can be composed from the functions below.
Cur ==
    [pc |-> pc, now |-> now, timeoutArmed |-> timeoutArmed, deadline |-> deadline,
     settled |-> settled, err |-> err, audioContext |-> audioContext,
     audioBuffer |-> audioBuffer, dest |-> dest, sourceNode |-> sourceNode,
     durationPerImageMs |-> durationPerImageMs, recorder |-> recorder,
     tracks |-> tracks, mimeType |-> mimeType, chunks |-> chunks,
     delivered |-> delivered, blob |-> blob, flush |-> flush,
     idx |-> idx, startTime |-> startTime, sleepDue |-> sleepDue, drawn |-> drawn,
     window |-> window, loads |-> loads, fetches |-> fetches, urls |-> urls,
     startCalls |-> startCalls, stopCalls |-> stopCalls, timeoutRan |-> timeoutRan,
     onstopRan |-> onstopRan, audioFailed |-> audioFailed,
     failedLoad |-> failedLoad, video |-> video,
     playPromise |-> playPromise, rafPending |-> rafPending, frames |-> frames]

Assign(st) ==
    /\ pc' = st.pc /\ now' = st.now /\ timeoutArmed' = st.timeoutArmed
    /\ deadline' = st.deadline /\ settled' = st.settled /\ err' = st.err
    /\ audioContext' = st.audioContext /\ audioBuffer' = st.audioBuffer
    /\ dest' = st.dest /\ sourceNode' = st.sourceNode
    /\ durationPerImageMs' = st.durationPerImageMs /\ recorder' = st.recorder
    /\ tracks' = st.tracks /\ mimeType' = st.mimeType /\ chunks' = st.chunks
    /\ delivered' = st.delivered /\ blob' = st.blob
    /\ flush' = st.flush /\ idx' = st.idx /\ startTime' = st.startTime
    /\ sleepDue' = st.sleepDue /\ drawn' = st.drawn /\ window' = st.window
    /\ loads' = st.loads /\ fetches' = st.fetches /\ urls' = st.urls
    /\ startCalls' = st.startCalls /\ stopCalls' = st.stopCalls
    /\ timeoutRan' = st.timeoutRan /\ onstopRan' = st.onstopRan
    /\ audioFailed' = st.audioFailed /\ failedLoad' = st.failedLoad
    /\ video' = st.video
    /\ playPromise' = st.playPromise /\ rafPending' = st.rafPending
    /\ frames' = st.frames

\* a task of the invocation followed: its closure variables are all it writes
Becomes(st) == Assign(st) /\ UNCHANGED <<inp, geoVars, cfgVars, other, appVars, dataVars>>

\* the invocation is in state st
Holds(st) ==
    /\ pc = st.pc /\ now = st.now /\ timeoutArmed = st.timeoutArmed
    /\ deadline = st.deadline /\ settled = st.settled /\ err = st.err
    /\ audioContext = st.audioContext /\ audioBuffer = st.audioBuffer
    /\ dest = st.dest /\ sourceNode = st.sourceNode
    /\ durationPerImageMs = st.durationPerImageMs /\ recorder = st.recorder
    /\ tracks = st.tracks /\ mimeType = st.mimeType /\ chunks = st.chunks
    /\ delivered = st.delivered /\ blob = st.blob
    /\ flush = st.flush /\ idx = st.idx /\ startTime = st.startTime
    /\ sleepDue = st.sleepDue /\ drawn = st.drawn /\ window = st.window
    /\ loads = st.loads /\ fetches = st.fetches /\ urls = st.urls
    /\ startCalls = st.startCalls /\ stopCalls = st.stopCalls
    /\ timeoutRan = st.timeoutRan /\ onstopRan = st.onstopRan
    /\ audioFailed = st.audioFailed /\ failedLoad = st.failedLoad
    /\ video = st.video
    /\ playPromise = st.playPromise /\ rafPending = st.rafPending
    /\ frames = st.frames

Idle ==
    [pc |-> "init", now |-> 0, timeoutArmed |-> FALSE, deadline |-> 0,
     settled |-> "pending", err |-> "none", audioContext |-> "null",
     audioBuffer |-> 0, dest |-> FALSE, sourceNode |-> "null",
     durationPerImageMs |-> [num |-> DefaultDurationMs, den |-> 1],
     recorder |-> "none", tracks |-> [video |-> 0, audio |-> 0], mimeType |-> "none",
     chunks |-> << >>, delivered |-> << >>, blob |-> << >>, flush |-> "none", idx |-> 0, startTime |-> 0, sleepDue |-> 0,
     drawn |-> [i \in 1..MaxImages |-> 0], window |-> [i \in 1..MaxImages |-> -1],
     loads |-> [i \in 0..MaxImages |-> 0], fetches |-> 0, urls |-> 0,
     startCalls |-> 0, stopCalls |-> 0, timeoutRan |-> FALSE, onstopRan |-> FALSE,
     audioFailed |-> FALSE, failedLoad |-> "none",
     video |-> [loading |-> FALSE, metadata |-> FALSE, paused |-> TRUE,
                ended |-> FALSE, error |-> FALSE],
     playPromise |-> "none", rafPending |-> FALSE, frames |-> 0]

\* no second invocation
NoOther == [inp |-> [op |-> "none", id |-> 0], run |-> Idle]

\* the state a new AudioContext is in: autoplay policy decides
AudioContextStates == {"suspended", "running"}

StitchInputs ==
    [op : {"stitch"}, id : {1}, images : 0..MaxImages, audioUrl : BOOLEAN,
     durationPerImageMs : CallerDurationsMs, ctx : BOOLEAN,
     supported : SupportedSets]

CropInputs ==
    [op : {"crop"}, id : {1}, images : {0}, audioUrl : {FALSE},
     durationPerImageMs : {DefaultDurationMs}, ctx : BOOLEAN,
     supported : SupportedSets]

(***************************************************************************)
(* The promise, the timer and the catch block.                             *)
(***************************************************************************)
\* resolve / reject: a promise settles once, later calls change nothing
Reject(st, e) ==
    IF st.settled = "pending" THEN [st EXCEPT !.settled = "rejected", !.err = e] ELSE st

Resolve(st) ==
    IF st.settled = "pending" THEN [st EXCEPT !.settled = "resolved"] ELSE st

ClearTimeout(st) == [st EXCEPT !.timeoutArmed = FALSE]

\* A catch block that clears the timer and forgets to reject.
CatchWithoutReject(st, e) == [ClearTimeout(st) EXCEPT !.pc = "done"]

\* catch (e) { clearTimeout(timeoutId); reject(e); }
Catch(st, e) == [Reject(ClearTimeout(st), e) EXCEPT !.pc = "done"]

\* What a rejection reason is.  loadImage has img.onerror = reject, so its
\* reason ("load") is the image element's error event: an Event, not an
\* Error, without message.  new MediaRecorder and video.play() fail with a
\* DOMException; every other reason is a new Error(message).
RejectionValue(e) ==
    IF e = "load" THEN [kind |-> "Event", message |-> FALSE]
    ELSE IF e \in {"NotSupportedError", "play"}
    THEN [kind |-> "DOMException", message |-> TRUE]
    ELSE [kind |-> "Error", message |-> TRUE]

\* loadImage(src): a new Image whose src is set, i.e. one load request
LoadImage(st, i) == [st EXCEPT !.loads[i] = @ + 1]

\* elapsed < durationPerImageMs
Less(elapsed, d) == d.den = 0 \/ elapsed * d.den < d.num

\* for (const type of mimeTypes) without its break: the last supported entry
RECURSIVE LastSupported(_, _, _)
LastSupported(i, supported, chosen) ==
    IF i > Len(mimeTypes) THEN chosen
    ELSE LastSupported(i + 1, supported,
                       IF mimeTypes[i] \in supported THEN mimeTypes[i] ELSE chosen)

\* for (const type of mimeTypes) { if (isTypeSupported(type)) { mimeType = type; break; } }
RECURSIVE FirstSupported(_, _, _)
FirstSupported(i, supported, chosen) ==
    IF i > Len(mimeTypes) THEN chosen
    ELSE IF mimeTypes[i] \in supported THEN mimeTypes[i]
    ELSE FirstSupported(i + 1, supported, chosen)

SelectMimeTypeWithoutBreak(supported) == LastSupported(1, supported, "video/webm")

\* let mimeType = 'video/webm'; then the loop over mimeTypes
SelectMimeType(supported) == FirstSupported(1, supported, "video/webm")

\* A stitch that takes every audio track of the destination stream.
StitchTracksAllAudio(videoTracks, audioTracks, hasDest) ==
    [video |-> videoTracks, audio |-> IF hasDest THEN audioTracks ELSE 0]

\* combinedTracks of stitchVideoFrames: every video track of the canvas
\* stream and, when there is a destination, its first audio track
StitchTracks(videoTracks, audioTracks, hasDest) ==
    [video |-> videoTracks, audio |-> IF hasDest /\ audioTracks > 0 THEN 1 ELSE 0]

\* combinedTracks of cropVideo: every track of both streams
CropTracks(videoTracks, audioTracks) == [video |-> videoTracks, audio |-> audioTracks]

(***************************************************************************)
(* stitchVideoFrames: the synchronous stretches between awaits.            *)
(***************************************************************************)
\* recorder.stop() after the loop; the async function ends here
StopRecording(st) ==
    [st EXCEPT !.recorder = "stopped", !.stopCalls = @ + 1, !.flush = "data",
               !.pc = "stopWait"]

\* for (const imgSrc of images): the next image is requested, or the loop is over
DrawLoop(st, i) ==
    IF i > inp.images THEN StopRecording(st)
    ELSE [LoadImage(st, i) EXCEPT !.idx = i, !.pc = "loadImg"]

\* A draw loop that gives every image a single frame.
DrawFramesOnce(st) ==
    IF st.drawn[st.idx] = 0
    THEN [st EXCEPT !.drawn[st.idx] = @ + 1, !.sleepDue = st.now + FrameMs,
                    !.pc = "sleep"]
    ELSE DrawLoop([st EXCEPT !.window[st.idx] = st.now - st.startTime], st.idx + 1)

\* while (Date.now() - startTime < durationPerImageMs) { draw; await timeout }
DrawFrames(st) ==
    IF Less(st.now - st.startTime, st.durationPerImageMs)
    THEN [st EXCEPT !.drawn[st.idx] = @ + 1, !.sleepDue = st.now + FrameMs,
                    !.pc = "sleep"]
    ELSE DrawLoop([st EXCEPT !.window[st.idx] = st.now - st.startTime], st.idx + 1)

\* A draw loop entered without sourceNode.start(0).
StartAudioSkipped(st) == DrawLoop(st, 1)

\* sourceNode.start(0), then the draw loop
StartAudio(st) == DrawLoop([st EXCEPT !.sourceNode = "started"], 1)

\* A MediaRecorder constructor that accepts whatever encoding it is given.
RecorderSetupAnyEncoding(st) ==
    LET st2 == [st EXCEPT !.mimeType = SelectMimeType(inp.supported),
                          !.tracks = StitchTracks(CaptureVideoTracks,
                                                  DestinationAudioTracks, st.dest),
                          !.recorder = "recording", !.startCalls = @ + 1]
    IN IF st2.sourceNode # "null" /\ st2.audioContext = "suspended"
       THEN [st2 EXCEPT !.pc = "resume"]
       ELSE IF st2.sourceNode # "null" THEN StartAudio(st2) ELSE DrawLoop(st2, 1)

\* "3. Prepare Recorder with Mixed Stream" up to the first await after it
RecorderSetup(st) ==
    LET mt == SelectMimeType(inp.supported)
        st1 == [st EXCEPT !.mimeType = mt,
                          !.tracks = StitchTracks(CaptureVideoTracks,
                                                  DestinationAudioTracks, st.dest)]
        st2 == [st1 EXCEPT !.recorder = "recording", !.startCalls = @ + 1]
    IN IF mt \notin inp.supported
       THEN Catch(st1, "NotSupportedError")      \* new MediaRecorder throws
       ELSE IF st2.sourceNode # "null" /\ st2.audioContext # "null"
            THEN IF st2.audioContext = "suspended"
                 THEN [st2 EXCEPT !.pc = "resume"]       \* await audioContext.resume()
                 ELSE StartAudio(st2)
            ELSE DrawLoop(st2, 1)

\* An audio block whose failure reaches the outer catch.
AudioCatchRethrows(st) == Catch([st EXCEPT !.audioFailed = TRUE], "audio")

\* catch (e) of the audio block: "Continue without audio if error"
AudioCatch(st) == RecorderSetup([st EXCEPT !.audioFailed = TRUE])

\* A decoded buffer that leaves the caller's per-image duration in place.
AudioReadyKeepsDuration(st, D) ==
    RecorderSetup([st EXCEPT !.audioBuffer = D, !.dest = TRUE, !.sourceNode = "created"])

\* the decoded buffer: duration re-derived, destination and source created
AudioReady(st, D) ==
    RecorderSetup([st EXCEPT !.audioBuffer = D,
                             !.durationPerImageMs =
                                 IF D > 0 THEN [num |-> D, den |-> inp.images] ELSE @,
                             !.dest = TRUE, !.sourceNode = "created"])

(***************************************************************************)
(* Time.  An awaited fetch, load, decode or resume completes at once or    *)
(* IoMs later; while the deadline timer is armed nothing is handled after  *)
(* its due time before the timer callback has run.                         *)
(***************************************************************************)
Latencies == {0} \cup (IF timeoutArmed /\ now + IoMs <= deadline THEN {IoMs} ELSE {})

Later(lat) == [Cur EXCEPT !.now = now + lat]

Max(a, b) == IF a >= b THEN a ELSE b

(***************************************************************************)
(* stitchVideoFrames: one action per task of the event loop.               *)
(***************************************************************************)
\* the call: the promise executor up to `await loadImage(images[0])`
StitchStart(st) ==
    LET st1 == [st EXCEPT !.timeoutArmed = TRUE, !.deadline = st.now + StitchTimeoutMs,
                          !.durationPerImageMs =
                              [num |-> inp.durationPerImageMs, den |-> 1]]
    IN IF ~inp.ctx THEN Catch(st1, "Could not get canvas context")
       ELSE [LoadImage(st1, IF inp.images > 0 THEN 1 ELSE 0) EXCEPT !.pc = "loadFirst"]

StitchCall ==
    /\ inp.op = "stitch" /\ pc = "init"
    /\ Becomes(StitchStart(Cur))

\* firstImage arrived (or its load failed); canvas sized; audio block entered
FirstImageLoaded ==
    /\ pc = "loadFirst"
    /\ \E ok \in BOOLEAN, lat \in Latencies,
          state \in (IF inp.audioUrl THEN AudioContextStates ELSE {"null"}) :
          Becomes(IF ~ok THEN Catch([Later(lat) EXCEPT !.failedLoad = "first"], "load")
                  ELSE IF inp.audioUrl
                  THEN [Later(lat) EXCEPT !.audioContext = state,
                                          !.fetches = @ + 1, !.pc = "fetchAudio"]
                  ELSE RecorderSetup(Later(lat)))

\* await fetch(audioUrl)
AudioFetched ==
    /\ pc = "fetchAudio"
    /\ \E ok \in BOOLEAN, lat \in Latencies :
          Becomes(IF ok THEN [Later(lat) EXCEPT !.pc = "readBody"]
                  ELSE AudioCatch(Later(lat)))

\* await response.arrayBuffer()
AudioBodyRead ==
    /\ pc = "readBody"
    /\ \E ok \in BOOLEAN, lat \in Latencies :
          Becomes(IF ok THEN [Later(lat) EXCEPT !.pc = "decode"]
                  ELSE AudioCatch(Later(lat)))

\* await audioContext.decodeAudioData(arrayBuffer)
AudioDecoded ==
    /\ pc = "decode"
    /\ \E lat \in Latencies :
          \/ \E D \in AudioDurationsMs : Becomes(AudioReady(Later(lat), D))
          \/ Becomes(AudioCatch(Later(lat)))

\* the same await, for an audio file of 30 s or more
LongAudioDecoded ==
    /\ pc = "decode"
    /\ \E lat \in Latencies :
          \/ \E D \in LongAudioDurationsMs : Becomes(AudioReady(Later(lat), D))
          \/ Becomes(AudioCatch(Later(lat)))

\* await audioContext.resume()
AudioResumed ==
    /\ pc = "resume"
    /\ \E lat \in Latencies :
          Becomes(StartAudio([Later(lat) EXCEPT !.audioContext = "running"]))

\* await loadImage(imgSrc) inside the draw loop
ImageLoaded ==
    /\ pc = "loadImg"
    /\ \E ok \in BOOLEAN, lat \in Latencies :
          Becomes(IF ~ok THEN Catch([Later(lat) EXCEPT !.failedLoad = "loop"], "load")
                  ELSE DrawFrames([Later(lat) EXCEPT !.startTime = now + lat]))

\* the 30 FPS throttle timer: the loop condition is evaluated again
FrameTick ==
    /\ pc = "sleep"
    /\ ~(timeoutArmed /\ deadline <= sleepDue)
    /\ Becomes(DrawFrames([Cur EXCEPT !.now = sleepDue]))

\* A handler that keeps empty chunks as well.
OnDataAvailableKeepsEmpty(st, data) == [st EXCEPT !.chunks = Append(@, data)]

\* Neither function calls stop() on a track (onstop, catch and the timer
\* callback hold no such statement): every track that was put into the
\* combined stream is live for as long as the stream exists.
LiveTracks(st) == st.tracks.video + st.tracks.audio

\* recorder.ondataavailable: if (e.data.size > 0) chunks.push(e.data)
OnDataAvailable(st, data) ==
    [st EXCEPT !.chunks = IF data.size > 0 THEN Append(@, data) ELSE @]

\* A chunk list kept at module level, shared by every invocation.
DataAvailableShared ==
    /\ flush = "data"
    /\ \E size \in {0, 1}, last \in BOOLEAN :
          /\ Len(delivered) + 1 >= MaxChunks => last
          /\ LET data == [rec |-> inp.id, seq |-> Len(delivered) + 1, size |-> size]
             IN /\ Assign([OnDataAvailable(Cur, data) EXCEPT
                              !.delivered = Append(@, data),
                              !.flush = IF last THEN "stop" ELSE "data"])
                /\ other' = [other EXCEPT
                                !.run = IF other.inp.op = "none" THEN @
                                        ELSE OnDataAvailable(@, data)]
                /\ UNCHANGED <<inp, geoVars, cfgVars, appVars, dataVars>>

\* After recorder.stop() the recorder hands over what it has gathered, in
\* one to MaxChunks dataavailable events, and then fires stop.
DataAvailable ==
    /\ flush = "data"
    /\ \E size \in {0, 1}, last \in BOOLEAN :
          /\ Len(delivered) + 1 >= MaxChunks => last
          /\ LET data == [rec |-> inp.id, seq |-> Len(delivered) + 1, size |-> size]
             IN Becomes([OnDataAvailable(Cur, data) EXCEPT
                            !.delivered = Append(@, data),
                            !.flush = IF last THEN "stop" ELSE "data"])

\* A recorder whose stop event is handled again and again.
StitchOnStopRepeats(st) ==
    Resolve([ClearTimeout(st) EXCEPT
                !.blob = st.chunks, !.urls = @ + 1,
                !.audioContext = IF @ # "null" THEN "closed" ELSE @,
                !.onstopRan = TRUE, !.pc = "done"])

\* recorder.onstop of stitchVideoFrames
StitchOnStop(st) ==
    Resolve([ClearTimeout(st) EXCEPT
                !.blob = st.chunks, !.urls = @ + 1,
                !.sourceNode = IF @ = "started" THEN "stopped" ELSE @,
                !.audioContext = IF @ # "null" THEN "closed" ELSE @,
                !.onstopRan = TRUE, !.flush = "none", !.pc = "done"])

StitchRecorderStopped ==
    /\ inp.op = "stitch" /\ flush = "stop"
    /\ Becomes(StitchOnStop(Cur))

\* A timer callback that lets the run go on.
StitchOnTimeoutIdle(st) == [st EXCEPT !.timeoutArmed = FALSE, !.timeoutRan = TRUE]

\* the setTimeout callback of stitchVideoFrames
StitchOnTimeout(st) ==
    Reject([st EXCEPT !.timeoutArmed = FALSE, !.timeoutRan = TRUE], "timeout")

StitchTimeout ==
    /\ inp.op = "stitch" /\ timeoutArmed /\ pc # "init"
    /\ pc = "sleep" => deadline <= sleepDue
    /\ Becomes(StitchOnTimeout([Cur EXCEPT !.now = Max(now, deadline)]))

(***************************************************************************)
(* cropVideo.                                                              *)
(***************************************************************************)
\* the promise executor: it registers the handlers and returns
CropStart(st, state) ==
    LET st1 == [st EXCEPT !.timeoutArmed = TRUE, !.deadline = st.now + CropTimeoutMs,
                          !.video.loading = TRUE]
        mt == SelectMimeType(inp.supported)
        st2 == [st1 EXCEPT !.audioContext = state, !.dest = TRUE,
                           !.tracks = CropTracks(CaptureVideoTracks,
                                                 DestinationAudioTracks),
                           !.mimeType = mt]
    IN IF ~inp.ctx
       THEN [Reject(ClearTimeout(st1), "Canvas context not available") EXCEPT !.pc = "done"]
       ELSE IF mt \notin inp.supported
       THEN \* new MediaRecorder throws out of the executor: the promise is
            \* rejected with it, no handler is registered, the timer stays
            [Reject(st2, "NotSupportedError") EXCEPT !.pc = "done"]
       ELSE [st2 EXCEPT !.recorder = "inactive", !.pc = "events"]

CropCall ==
    /\ inp.op = "crop" /\ pc = "init"
    /\ \E state \in AudioContextStates : Becomes(CropStart(Cur, state))

\* renderFrame
RenderFrame(st) ==
    IF st.video.paused \/ st.video.ended THEN [st EXCEPT !.rafPending = FALSE]
    ELSE [st EXCEPT !.frames = @ + 1, !.rafPending = TRUE]

\* video.play().catch(e => { clearTimeout(timeoutId); reject(e); })
PlayCatch(st) == Reject(ClearTimeout(st), "play")

\* video.onloadedmetadata: recorder.start(), video.play(), renderFrame().
\* play() either rejects at once (not allowed to play: the element stays
\* paused) or un-pauses the element and stays pending.
OnLoadedMetadata(st, allowed) ==
    LET st1 == [st EXCEPT !.video.metadata = TRUE, !.recorder = "recording",
                          !.startCalls = @ + 1]
    IN IF allowed
       THEN RenderFrame([st1 EXCEPT !.video.paused = FALSE, !.playPromise = "pending"])
       ELSE PlayCatch(RenderFrame([st1 EXCEPT !.playPromise = "rejected"]))

VideoLoadedMetadata ==
    /\ pc = "events" /\ ~video.metadata /\ ~video.error
    /\ \E allowed \in BOOLEAN : Becomes(OnLoadedMetadata(Cur, allowed))

\* playback has begun: the play() promise is fulfilled
PlayStarted ==
    /\ pc = "events" /\ playPromise = "pending" /\ ~video.error
    /\ Becomes([Cur EXCEPT !.playPromise = "fulfilled"])

\* playback could not begin: the play() promise is rejected
PlayRejected ==
    /\ pc = "events" /\ playPromise = "pending"
    /\ Becomes(PlayCatch([Cur EXCEPT !.playPromise = "rejected", !.video.paused = TRUE]))

\* requestAnimationFrame(renderFrame)
AnimationFrame ==
    /\ pc = "events" /\ rafPending
    /\ frames < MaxFrames \/ video.paused \/ video.ended
    /\ Becomes(RenderFrame(Cur))

\* the user agent pauses the element (media session, interruption) ...
VideoPaused ==
    /\ pc = "events" /\ video.metadata /\ playPromise = "fulfilled"
    /\ ~video.paused /\ ~video.ended /\ ~video.error
    /\ Becomes([Cur EXCEPT !.video.paused = TRUE])

\* ... and lets it play again
VideoResumed ==
    /\ pc = "events" /\ video.metadata /\ playPromise = "fulfilled"
    /\ video.paused /\ ~video.ended /\ ~video.error
    /\ Becomes([Cur EXCEPT !.video.paused = FALSE])

\* video.onended: recorder.stop()
OnEnded(st) ==
    [st EXCEPT !.video.ended = TRUE, !.recorder = "stopped", !.stopCalls = @ + 1,
               !.flush = "data"]

VideoEnded ==
    /\ pc = "events" /\ video.metadata /\ playPromise = "fulfilled"
    /\ ~video.paused /\ ~video.ended /\ ~video.error
    /\ Becomes(OnEnded(Cur))

\* video.onerror
OnError(st) ==
    Reject(ClearTimeout([st EXCEPT !.video.error = TRUE]),
           "Error loading video source for crop. Likely CORS issue.")

VideoError ==
    /\ pc = "events" /\ ~video.error /\ ~video.ended
    /\ Becomes(OnError(Cur))

\* recorder.onstop of cropVideo
CropOnStop(st) ==
    Resolve([ClearTimeout(st) EXCEPT
                !.blob = st.chunks, !.urls = @ + 1, !.audioContext = "closed",
                !.onstopRan = TRUE, !.flush = "none", !.pc = "done"])

CropRecorderStopped ==
    /\ inp.op = "crop" /\ flush = "stop"
    /\ Becomes(CropOnStop(Cur))

\* the setTimeout callback of cropVideo
CropOnTimeout(st) ==
    Reject([st EXCEPT !.timeoutArmed = FALSE, !.timeoutRan = TRUE], "timeout")

CropTimeout ==
    /\ inp.op = "crop" /\ timeoutArmed /\ pc # "init"
    /\ Becomes(CropOnTimeout([Cur EXCEPT !.now = Max(now, deadline)]))

(***************************************************************************)
(* The geometry on its own: a draw site is handed sizes and computes.      *)
(***************************************************************************)
StitchDraw ==
    /\ geoOut.site = "none"
    /\ geoOut' = [site |-> "stitchVideoFrames",
                  rect |-> CoverGeometry(geoIn.srcW, geoIn.srcH,
                                         geoIn.targetW, geoIn.targetH)]
    /\ UNCHANGED <<geoIn, inp, runVars, cfgVars, other, appVars, dataVars>>

CropDraw ==
    /\ geoOut.site = "none"
    /\ geoOut' = [site |-> "cropVideo",
                  rect |-> CropGeometry(geoIn.srcW, geoIn.srcH,
                                        geoIn.targetW, geoIn.targetH)]
    /\ UNCHANGED <<geoIn, inp, runVars, cfgVars, other, appVars, dataVars>>

(***************************************************************************)
(* The recorder preparation on its own: tracks and encoding as a function  *)
(* of what the streams expose and of what the runtime can record.          *)
(***************************************************************************)
ConfigInputs ==
    [videoTracks : 0..MaxTracks, audioTracks : 0..MaxTracks, dest : BOOLEAN,
     supported : SUBSET AllTypes]

StitchConfigure ==
    /\ cfgOut.site = "none"
    /\ cfgOut' = [site |-> "stitchVideoFrames",
                  tracks |-> StitchTracks(cfgIn.videoTracks, cfgIn.audioTracks, cfgIn.dest),
                  mimeType |-> SelectMimeType(cfgIn.supported),
                  constructed |-> SelectMimeType(cfgIn.supported) \in cfgIn.supported]
    /\ UNCHANGED <<cfgIn, inp, runVars, geoVars, other, appVars, dataVars>>

CropConfigure ==
    /\ cfgOut.site = "none"
    /\ cfgOut' = [site |-> "cropVideo",
                  tracks |-> CropTracks(cfgIn.videoTracks, cfgIn.audioTracks),
                  mimeType |-> SelectMimeType(cfgIn.supported),
                  constructed |-> SelectMimeType(cfgIn.supported) \in cfgIn.supported]
    /\ UNCHANGED <<cfgIn, inp, runVars, geoVars, other, appVars, dataVars>>

(***************************************************************************)
(* Two invocations in one execution context.  The tasks of both interleave *)
(* freely; the model follows one invocation at a time and Switch turns to  *)
(* the other one.  Each has its own closure: canvas, recorder, chunks,     *)
(* timer and promise are declared inside the function.                     *)
(***************************************************************************)
PairInputs ==
    {[i EXCEPT !.durationPerImageMs = 2 * FrameMs] : i \in
        {j \in StitchInputs :
            /\ j.images = 1 /\ ~j.audioUrl /\ j.ctx /\ j.supported = AllTypes
            /\ j.durationPerImageMs = DefaultDurationMs}}
    \cup {i \in CropInputs : i.ctx /\ i.supported = AllTypes}

Switch ==
    /\ other.inp.op # "none"
    /\ inp' = other.inp
    /\ Assign(other.run)
    /\ other' = [inp |-> inp, run |-> Cur]
    /\ UNCHANGED <<geoVars, cfgVars, appVars, dataVars>>

(***************************************************************************)
(* Specifications.                                                         *)
(***************************************************************************)
NoConfig ==
    [videoTracks |-> CaptureVideoTracks, audioTracks |-> DestinationAudioTracks,
     dest |-> FALSE, supported |-> AllTypes]

NoGeometry == [srcW |-> 1, srcH |-> 1, targetW |-> 1, targetH |-> 1]

Init ==
    /\ inp \in StitchInputs \cup CropInputs
    /\ Holds(Idle)
    /\ geoIn = NoGeometry /\ geoOut = [site |-> "none"]
    /\ cfgIn = NoConfig /\ cfgOut = [site |-> "none"]
    /\ other = NoOther
    /\ svc = NoCall /\ prod = NoProduction
    /\ NoData

Next ==
    \/ StitchCall \/ FirstImageLoaded \/ AudioFetched \/ AudioBodyRead
    \/ AudioDecoded \/ AudioResumed \/ ImageLoaded \/ FrameTick
    \/ DataAvailable \/ StitchRecorderStopped \/ StitchTimeout
    \/ CropCall \/ VideoLoadedMetadata \/ PlayStarted \/ PlayRejected
    \/ AnimationFrame \/ VideoPaused \/ VideoResumed \/ VideoEnded \/ VideoError
    \/ CropRecorderStopped \/ CropTimeout

Spec == Init /\ [][Next]_vars

\* The event loop runs every timer that is due: the deadline timers and the
\* frame throttle.  Nothing promises that a load, a fetch or playback ends.
FairSpec ==
    Spec /\ WF_vars(FrameTick) /\ WF_vars(StitchTimeout) /\ WF_vars(CropTimeout)

\* stitchVideoFrames against its deadline: a canvas context, every encoding,
\* at least one image; audio files shorter and longer than the deadline
InitDeadline ==
    /\ inp \in {i \in StitchInputs : i.images > 0 /\ i.ctx /\ i.supported = AllTypes}
    /\ Holds(Idle)
    /\ geoIn = NoGeometry /\ geoOut = [site |-> "none"]
    /\ cfgIn = NoConfig /\ cfgOut = [site |-> "none"]
    /\ other = NoOther
    /\ svc = NoCall /\ prod = NoProduction
    /\ NoData

NextDeadline ==
    \/ StitchCall \/ FirstImageLoaded \/ AudioFetched \/ AudioBodyRead
    \/ AudioDecoded \/ LongAudioDecoded \/ AudioResumed \/ ImageLoaded \/ FrameTick
    \/ DataAvailable \/ StitchRecorderStopped \/ StitchTimeout

SpecDeadline == InitDeadline /\ [][NextDeadline]_vars

\* Timers fire; an awaited load, fetch or decode may stay unanswered.
FairSpecDeadline ==
    SpecDeadline /\ WF_vars(FrameTick) /\ WF_vars(StitchTimeout)

InitCover ==
    /\ inp \in {i \in CropInputs : i.ctx /\ i.supported = AllTypes}
    /\ Holds(Idle)
    /\ geoIn \in GeometryInputs /\ geoOut = [site |-> "none"]
    /\ cfgIn = NoConfig /\ cfgOut = [site |-> "none"]
    /\ other = NoOther
    /\ svc = NoCall /\ prod = NoProduction
    /\ NoData

NextCover == StitchDraw \/ CropDraw

SpecCover == InitCover /\ [][NextCover]_vars

InitConfig ==
    /\ inp \in {i \in CropInputs : i.ctx /\ i.supported = AllTypes}
    /\ Holds(Idle)
    /\ geoIn = NoGeometry /\ geoOut = [site |-> "none"]
    /\ cfgIn \in ConfigInputs /\ cfgOut = [site |-> "none"]
    /\ other = NoOther
    /\ svc = NoCall /\ prod = NoProduction
    /\ NoData

NextConfig == StitchConfigure \/ CropConfigure

SpecConfig == InitConfig /\ [][NextConfig]_vars

InitPair ==
    /\ inp \in {i \in PairInputs : i.op = "stitch"}
    /\ Holds(Idle)
    /\ geoIn = NoGeometry /\ geoOut = [site |-> "none"]
    /\ cfgIn = NoConfig /\ cfgOut = [site |-> "none"]
    /\ other \in {[inp |-> [i EXCEPT !.id = 2], run |-> Idle] : i \in PairInputs}
    /\ svc = NoCall /\ prod = NoProduction
    /\ NoData

NextPair ==
    \/ StitchCall \/ FirstImageLoaded \/ ImageLoaded \/ FrameTick
    \/ DataAvailable \/ StitchRecorderStopped \/ StitchTimeout
    \/ CropCall \/ VideoLoadedMetadata \/ PlayStarted \/ PlayRejected
    \/ AnimationFrame \/ VideoEnded \/ VideoError
    \/ CropRecorderStopped \/ CropTimeout
    \/ Switch

SpecPair == InitPair /\ [][NextPair]_vars

(***************************************************************************)
(* The generation services (authService.ts).  A call awaits an upstream    *)
(* request; what the upstream answers is chosen when the await completes.  *)
(***************************************************************************)
\* Words an error message is made of; includes() looks for the first two.
Words == {"429", "RESOURCE_EXHAUSTED", "quota", "Internal"}

RECURSIVE SeqsUpTo(_, _)
SeqsUpTo(S, n) ==
    IF n = 0 THEN {<< >>}
    ELSE LET shorter == SeqsUpTo(S, n - 1)
         IN shorter \cup {Append(s, w) : s \in shorter, w \in S}

Messages == SeqsUpTo(Words, MaxWords)

\* String.prototype.includes
Includes(message, word) == \E i \in 1..Len(message) : message[i] = word

\* An error object: status 0 and hasMessage FALSE stand for undefined.
ErrorObject(name, status, hasMessage, message) ==
    [name |-> name, status |-> status, hasMessage |-> hasMessage, message |-> message]

\* new Error(text)
NewError(text) == ErrorObject("Error", 0, TRUE, <<text>>)

\* what the upstream SDK call can throw
UpstreamErrors ==
    {ErrorObject("ApiError", s, TRUE, m) : s \in {0, 429, 500}, m \in Messages}
    \cup {ErrorObject("ApiError", s, FALSE, << >>) : s \in {0, 429, 500}}

\* what JSON.parse can throw: the engine words the message, and may quote
\* the text it could not parse
SyntaxErrors == {ErrorObject("SyntaxError", 0, TRUE, m) : m \in Messages \ {<< >>}}

\* response.text: fenced by ```json ... ``` or not, and a body
Bodies ==
    {[kind |-> k, scenes |-> -1, long |-> FALSE] : k \in {"empty", "blank", "null"}}
    \cup [kind : {"cut"}, scenes : {-1}, long : BOOLEAN]
    \cup [kind : {"json"}, scenes : -1..MaxScenes, long : BOOLEAN]

Texts == [fenced : BOOLEAN, body : Bodies]

\* JSON.parse(text) succeeds on one well-formed value and nothing else
Parses(text) == ~text.fenced /\ text.body.kind \in {"null", "json"}

NoResponse == [kind |-> "none"]

Pending == [kind |-> "pending"]

Returned(value) == [kind |-> "returned", value |-> value]

Thrown(error) == [kind |-> "thrown", error |-> error]

\* ai.models.generateContent: a response with a text, or an error
ContentResponses ==
    {[kind |-> "error", error |-> e] : e \in UpstreamErrors}
    \cup {[kind |-> "text", text |-> x] : x \in Texts}

(***************************************************************************)
(* generateScriptContent                                                   *)
(***************************************************************************)
\* catch (error): the fallback script on quota exhaustion, else rethrow
ScriptCatch(error) ==
    IF \/ error.status = 429
       \/ (error.hasMessage /\ error.message # << >> /\ Includes(error.message, "429"))
       \/ (error.hasMessage /\ Includes(error.message, "RESOURCE_EXHAUSTED"))
    THEN Returned([type |-> "placeholder"])
    ELSE Thrown(error)

\* the try block after the await, with the catch block around it
ScriptContent(response, syntaxError) ==
    IF response.kind = "error" THEN ScriptCatch(response.error)
    ELSE IF ~response.text.fenced /\ response.text.body.kind = "empty"
    THEN Returned([type |-> "script", text |-> "empty"])
    ELSE IF Parses(response.text)
    THEN Returned([type |-> "script", text |-> response.text.body.kind])
    ELSE ScriptCatch(syntaxError)

ServiceCall(fn, arg) ==
    [fn |-> fn, arg |-> arg, pc |-> "await", response |-> NoResponse,
     outcome |-> Pending, operation |-> [done |-> FALSE, uri |-> FALSE],
     server |-> [done |-> FALSE, uri |-> FALSE], polls |-> 0, tried |-> << >>]

\* one task of a service call: nothing else changes
Serves(call) == svc' = call /\ UNCHANGED <<inp, runVars, geoVars, cfgVars, other, prod, dataVars>>

GenerateScriptContent ==
    /\ svc.fn = "generateScriptContent" /\ svc.pc = "await"
    /\ \E response \in ContentResponses, syntaxError \in SyntaxErrors :
          Serves([svc EXCEPT !.pc = "settled", !.response = response,
                             !.outcome = ScriptContent(response, syntaxError)])

(***************************************************************************)
(* generateStory                                                           *)
(***************************************************************************)
\* text.replace(/```json/g, '').replace(/```/g, '').trim()
StoryCleanup(text) ==
    [fenced |-> FALSE,
     body |-> IF text.body.kind = "blank" THEN [text.body EXCEPT !.kind = "empty"]
              ELSE text.body]

\* An outer catch block that reports every error as quota exhaustion.
StoryCatchAllQuota(error) ==
    Thrown(NewError("Daily AI quota exceeded (Story Generation)."))

\* the outer catch block: status 429 becomes the quota error
StoryCatch(error) ==
    IF error.status = 429
    THEN Thrown(NewError("Daily AI quota exceeded (Story Generation)."))
    ELSE Thrown(error)

\* the inner catch block: a SyntaxError on a long text is a truncation
StoryParseCatch(text, parseError) ==
    IF parseError.name = "SyntaxError" /\ text.body.long
    THEN NewError("Story generation was too long and got cut off. Please try a simpler idea.")
    ELSE NewError("Failed to parse story manifest. Please try again.")

\* the inner try block: parse, then the client-side validation
StoryParse(text, syntaxError) ==
    IF ~Parses(text) THEN Thrown(StoryParseCatch(text, syntaxError))
    ELSE IF text.body.kind = "null"         \* manifest.scenes of null
    THEN Thrown(StoryParseCatch(text, ErrorObject("TypeError", 0, TRUE, << >>)))
    ELSE IF text.body.scenes # RequiredScenes /\ ~(text.body.scenes > 0)
    THEN Thrown(StoryParseCatch(text, NewError("Manifest must have exactly 5 scenes")))
    ELSE Returned([type |-> "manifest", scenes |-> text.body.scenes,
                   status |-> "story_ready"])

\* the outer try block after the await, with the catch block around it
Story(response, syntaxError) ==
    IF response.kind = "error" THEN StoryCatch(response.error)
    ELSE LET text == StoryCleanup(response.text)
             parsed == StoryParse(text, syntaxError)
         IN IF text.body.kind = "empty"
            THEN StoryCatch(NewError("Empty response from Gemini"))
            ELSE IF parsed.kind = "thrown" THEN StoryCatch(parsed.error)
            ELSE parsed

GenerateStory ==
    /\ svc.fn = "generateStory" /\ svc.pc = "await"
    /\ \E response \in ContentResponses, syntaxError \in SyntaxErrors :
          Serves([svc EXCEPT !.pc = "settled", !.response = response,
                             !.outcome = Story(response, syntaxError)])

(***************************************************************************)
(* generateVeoVideo and generateVeoProductVideo: start the operation, poll *)
(* it every 5 s until it is done.  The operation completes on the server   *)
(* at a moment of its own; a completed operation carries a video or not.   *)
(***************************************************************************)
VeoFunctions == {"generateVeoVideo", "generateVeoProductVideo"}

NoVideoUri(fn) ==
    NewError(IF fn = "generateVeoVideo" THEN "No video URI returned from Veo"
             ELSE "No video URI returned from Veo Product Generation")

\* catch (error): quota exhaustion gets a message of its own
VeoCatch(error) ==
    IF error.status = 429 \/ (error.hasMessage /\ Includes(error.message, "RESOURCE_EXHAUSTED"))
    THEN Thrown(NewError("Daily AI quota exceeded. Please try again later or check your billing."))
    ELSE Thrown(error)

\* after the loop: the URI of the first generated video, or an error
VeoFinish(call, operation) ==
    [call EXCEPT !.pc = "settled", !.operation = operation,
                 !.outcome = IF ~operation.uri THEN VeoCatch(NoVideoUri(call.fn))
                             ELSE Returned([type |-> "videoUrl"])]

\* A loop that is left after the first answer, done or not.
VeoLoopOnce(call, operation) == VeoFinish(call, operation)

\* while (!operation.done) { await sleep(5000); operation = await get... }
VeoLoop(call, operation) ==
    IF operation.done THEN VeoFinish(call, operation)
    ELSE [call EXCEPT !.pc = "sleep", !.operation = operation]

\* what the server reports of the operation
Reported(call) == [done |-> call.server.done, uri |-> call.server.done /\ call.server.uri]

\* await ai.models.generateVideos(...) has answered
VeoStarted ==
    /\ svc.fn \in VeoFunctions /\ svc.pc = "await"
    /\ \/ \E error \in UpstreamErrors :
             Serves([svc EXCEPT !.pc = "settled", !.outcome = VeoCatch(error),
                                !.response = [kind |-> "error", error |-> error]])
       \/ Serves(VeoLoop([svc EXCEPT !.response = [kind |-> "operation"]],
                         Reported(svc)))

\* the 5 s timer has fired: getVideosOperation is requested
VeoSleepOver ==
    /\ svc.fn \in VeoFunctions /\ svc.pc = "sleep"
    /\ Serves([svc EXCEPT !.pc = "poll"])

\* await ai.operations.getVideosOperation(...) has answered
VeoPolled ==
    /\ svc.fn \in VeoFunctions /\ svc.pc = "poll"
    /\ LET polled == [svc EXCEPT !.polls = IF @ < MaxPolls THEN @ + 1 ELSE @]
       IN \/ \E error \in UpstreamErrors :
                Serves([polled EXCEPT !.pc = "settled", !.outcome = VeoCatch(error),
                                      !.response = [kind |-> "error", error |-> error]])
          \/ Serves(VeoLoop(polled, Reported(svc)))

\* the server finishes the operation, with a video or without
OperationCompletes ==
    /\ svc.fn \in VeoFunctions /\ svc.pc # "settled" /\ ~svc.server.done
    /\ \E uri \in BOOLEAN : Serves([svc EXCEPT !.server = [done |-> TRUE, uri |-> uri]])

(***************************************************************************)
(* synthesizeAudio: Gemini TTS when there is no ElevenLabs key, else       *)
(* ElevenLabs with Gemini TTS as the fallback.  generateSpeech belongs to  *)
(* another module: it answers with a URL or rejects.                       *)
(***************************************************************************)
SpeechErrors == {NewError("generateSpeech failed")}

\* the call up to its first await
SynthesizeStart(call) ==
    IF ~call.arg.elevenApiKey
    THEN [call EXCEPT !.pc = "speech", !.tried = <<"gemini">>]
    ELSE [call EXCEPT !.pc = "eleven", !.tried = <<"elevenlabs">>]

\* catch (error): fall back to generateSpeech
SynthesizeCatch(call) == [call EXCEPT !.pc = "speech", !.tried = Append(@, "gemini")]

\* await fetch(elevenlabs): rejected, answered with an error status, or ok
ElevenLabsAnswered ==
    /\ svc.fn = "synthesizeAudio" /\ svc.pc = "eleven"
    /\ \E answer \in {"rejected", "not ok", "ok"} :
          Serves(IF answer = "ok" THEN [svc EXCEPT !.pc = "blob"]
                 ELSE SynthesizeCatch(svc))

\* await response.blob()
ElevenLabsBodyRead ==
    /\ svc.fn = "synthesizeAudio" /\ svc.pc = "blob"
    /\ \E ok \in BOOLEAN :
          Serves(IF ok THEN [svc EXCEPT !.pc = "metadata"] ELSE SynthesizeCatch(svc))

\* audio.onloadedmetadata / audio.onerror: both resolve
AudioMetadata ==
    /\ svc.fn = "synthesizeAudio" /\ svc.pc = "metadata"
    /\ \E loaded \in BOOLEAN :
          Serves([svc EXCEPT !.pc = "settled",
                             !.outcome = Returned([type |-> "audio", by |-> "elevenlabs",
                                                   measured |-> loaded])])

\* await generateSpeech(...): outside every try block
SpeechAnswered ==
    /\ svc.fn = "synthesizeAudio" /\ svc.pc = "speech"
    /\ \/ Serves([svc EXCEPT !.pc = "settled",
                             !.outcome = Returned([type |-> "audio", by |-> "gemini",
                                                   measured |-> FALSE])])
       \/ \E error \in SpeechErrors :
             Serves([svc EXCEPT !.pc = "settled", !.outcome = Thrown(error)])

(***************************************************************************)
(* The generation services on their own.                                   *)
(***************************************************************************)
ServiceCalls ==
    {ServiceCall(fn, [elevenApiKey |-> FALSE]) :
        fn \in {"generateScriptContent", "generateStory"} \cup VeoFunctions}
    \cup {SynthesizeStart(ServiceCall("synthesizeAudio", [elevenApiKey |-> key])) :
              key \in BOOLEAN}

InitService ==
    /\ inp \in {i \in CropInputs : i.ctx /\ i.supported = AllTypes}
    /\ Holds(Idle)
    /\ geoIn = NoGeometry /\ geoOut = [site |-> "none"]
    /\ cfgIn = NoConfig /\ cfgOut = [site |-> "none"]
    /\ other = NoOther
    /\ svc \in ServiceCalls /\ prod = NoProduction
    /\ NoData

NextService ==
    \/ GenerateScriptContent
    \/ GenerateStory
    \/ VeoStarted \/ VeoSleepOver \/ VeoPolled \/ OperationCompletes
    \/ ElevenLabsAnswered \/ ElevenLabsBodyRead \/ AudioMetadata \/ SpeechAnswered

SpecService == InitService /\ [][NextService]_vars

\* A request is answered and a timer fires; when the server finishes the
\* operation is its own affair.
FairSpecService ==
    /\ SpecService
    /\ WF_vars(VeoStarted) /\ WF_vars(VeoSleepOver) /\ WF_vars(VeoPolled)

(***************************************************************************)
(* runProduction (ShortMakerEditor): story, one image per scene, audio,    *)
(* assembly.  One action per await of the workflow.                        *)
(***************************************************************************)
Ideas == {"", "a fox learns to fly"}

Production(idea) ==
    [idea |-> idea, pc |-> "idle", step |-> "INPUT", isProcessing |-> FALSE,
     scenes |-> 0, described |-> << >>, images |-> << >>, i |-> 0,
     completedImages |-> 0, audioUrl |-> FALSE, videoUrl |-> FALSE, errorMsg |-> << >>]

\* one task of the workflow: nothing else changes
Produces(p) == prod' = p /\ UNCHANGED <<inp, runVars, geoVars, cfgVars, other, svc, dataVars>>

\* a catch block that also puts the workflow back to its first step
ProductionCatchResets(p, error) ==
    [p EXCEPT !.pc = "done", !.isProcessing = FALSE, !.step = "INPUT",
              !.errorMsg = IF error.hasMessage /\ error.message # << >>
                           THEN error.message ELSE <<"Production failed.">>]

\* catch (e) and finally
ProductionCatch(p, error) ==
    [p EXCEPT !.pc = "done", !.isProcessing = FALSE,
              !.errorMsg = IF error.hasMessage /\ error.message # << >>
                           THEN error.message ELSE <<"Production failed.">>]

\* assembleVideo up to its await: the images that exist, or an error
AssembleVideo(p) ==
    IF \A k \in 1..p.scenes : ~p.images[k]
    THEN ProductionCatch(p, NewError("No images generated to assemble video"))
    ELSE [p EXCEPT !.pc = "assembly"]

\* the head of the image loop: the next scene is announced and requested,
\* or the loop is over and the audio is requested
ImageLoop(p) ==
    IF p.i >= p.scenes THEN [p EXCEPT !.step = "AUDIO", !.pc = "audio"]
    ELSE IF ~p.described[p.i + 1]     \* visual_description.substring of undefined
    THEN ProductionCatch(p, ErrorObject("TypeError", 0, TRUE, <<"Cannot read properties of undefined">>))
    ELSE [p EXCEPT !.pc = "image"]

\* the click handler, of the Generate button or of the Retry button that an
\* error message brings, up to `await generateStory(...)`
RunProduction ==
    /\ prod.step # "none" /\ prod.idea # ""
    /\ prod.pc = "idle" \/ (prod.pc = "done" /\ prod.errorMsg # << >>)
    /\ Produces([Production(prod.idea) EXCEPT !.pc = "story", !.step = "SCRIPT",
                                              !.isProcessing = TRUE])

\* await generateStory(...): a manifest, whose scenes carry a description
\* or lack it, or an error
StoryAnswered ==
    /\ prod.step # "none" /\ prod.pc = "story"
    /\ \E response \in ContentResponses, syntaxError \in SyntaxErrors :
          LET story == Story(response, syntaxError)
          IN IF story.kind = "thrown"
             THEN Produces(ProductionCatch(prod, story.error))
             ELSE \E described \in [1..story.value.scenes -> BOOLEAN] :
                     Produces([prod EXCEPT !.pc = "beat",
                                           !.scenes = story.value.scenes,
                                           !.described = described,
                                           !.images = [k \in 1..story.value.scenes |-> FALSE]])

\* the 1 s pause is over: the image loop is entered
BeatOver ==
    /\ prod.step # "none" /\ prod.pc = "beat"
    /\ Produces(ImageLoop([prod EXCEPT !.step = "VISUALS", !.i = 0]))

\* await generateSceneImage(...): the URL is stored, or the failure is logged
ImageAnswered ==
    /\ prod.step # "none" /\ prod.pc = "image"
    /\ \E ok \in BOOLEAN :
          Produces(ImageLoop(
              IF ok THEN [prod EXCEPT !.images[prod.i + 1] = TRUE,
                                      !.completedImages = @ + 1, !.i = @ + 1]
              ELSE [prod EXCEPT !.i = @ + 1]))

\* await synthesizeAudio(...): the URL is kept, or the failure is logged;
\* then assembleVideo is called
AudioAnswered ==
    /\ prod.step # "none" /\ prod.pc = "audio"
    /\ \E ok \in BOOLEAN :
          Produces(AssembleVideo([prod EXCEPT !.audioUrl = ok, !.step = "ASSEMBLY"]))

\* what stitchVideoFrames rejects with: an Error, or the bare error event
StitchRejections ==
    {NewError("Video generation timed out (MediaRecorder stuck). Try a shorter duration or refresh."),
     NewError("Could not get canvas context"),
     ErrorObject("Event", 0, FALSE, << >>)}

\* await stitchVideoFrames(images, audioUrl), through assembleVideo
AssemblyAnswered ==
    /\ prod.step # "none" /\ prod.pc = "assembly"
    /\ \/ Produces([prod EXCEPT !.pc = "done", !.videoUrl = TRUE,
                                !.step = "COMPLETE", !.isProcessing = FALSE])
       \/ \E error \in StitchRejections : Produces(ProductionCatch(prod, error))

InitProduction ==
    /\ inp \in {i \in CropInputs : i.ctx /\ i.supported = AllTypes}
    /\ Holds(Idle)
    /\ geoIn = NoGeometry /\ geoOut = [site |-> "none"]
    /\ cfgIn = NoConfig /\ cfgOut = [site |-> "none"]
    /\ other = NoOther
    /\ svc = NoCall /\ prod \in {Production(idea) : idea \in Ideas}
    /\ NoData

NextProduction ==
    \/ RunProduction \/ StoryAnswered \/ BeatOver \/ ImageAnswered
    \/ AudioAnswered \/ AssemblyAnswered

SpecProduction == InitProduction /\ [][NextProduction]_vars

(***************************************************************************)
(* Credits (projectService.ts).  deductCredits reads the balance of the    *)
(* user's profile and writes the lowered balance back: two requests, each  *)
(* answered in a task of its own.                                          *)
(***************************************************************************)
Balances == 0..MaxCredits

Amounts == 0..MaxAmount

\* one task of the credit bookkeeping: nothing else changes
Books(p, cs) ==
    /\ profile' = p /\ calls' = cs
    /\ UNCHANGED <<inp, runVars, geoVars, cfgVars, other, appVars,
                   configured, opened, gen, projects, ffmpeg>>

\* what the update request can fail with
UpdateErrors == {ErrorObject("PostgrestError", 500, TRUE, <<"Internal">>)}

\* deductCredits up to its first await; `before` notes the balance stored
\* at the time of the call, `updated` that the call's update was carried out
DeductCredits(amount) ==
    IF ~configured
    THEN [pc |-> "done", amount |-> amount, before |-> profile.credits_balance,
          value |-> 0, updated |-> FALSE, outcome |-> Returned("undefined")]
    ELSE [pc |-> "select", amount |-> amount, before |-> profile.credits_balance,
          value |-> 0, updated |-> FALSE, outcome |-> Pending]

\* after `await ... .select('credits_balance').eq('id', userId).single()`:
\* answer is [error, credits_balance], error standing for a failed request
\* or a missing row
ProfileSelected(call, answer) ==
    IF answer.error
    THEN [call EXCEPT !.pc = "done", !.outcome = Returned("undefined")]
    ELSE IF answer.credits_balance < call.amount
    THEN [call EXCEPT !.pc = "done",
                      !.outcome = Thrown(NewError("Insufficient credits"))]
    ELSE [call EXCEPT !.pc = "update",
                      !.value = answer.credits_balance - call.amount]

\* after `await ... .update({credits_balance: ...}).eq('id', userId)`
ProfileUpdated(call, updateError) ==
    IF updateError.kind = "error"
    THEN [call EXCEPT !.pc = "done", !.outcome = Thrown(updateError.error)]
    ELSE [call EXCEPT !.pc = "done", !.updated = TRUE,
                      !.outcome = Returned("undefined")]

\* a call of deductCredits
Deduct ==
    /\ Len(calls) < MaxCalls
    /\ \E amount \in Amounts : Books(profile, Append(calls, DeductCredits(amount)))

\* a call while no other one is in flight
DeductCalled ==
    /\ gen.pc = "none"
    /\ \A c \in 1..Len(calls) : calls[c].pc = "done"
    /\ Deduct

\* a call while another one is waiting for the server
DeductCalledMeanwhile ==
    /\ gen.pc = "none"
    /\ \E c \in 1..Len(calls) : calls[c].pc # "done"
    /\ Deduct

\* the server answers the select: with the row as it is stored now, or
\* with an error
SelectAnswered ==
    \E c \in 1..Len(calls) :
        /\ calls[c].pc = "select"
        /\ \E failed \in BOOLEAN :
              LET answer == [error |-> failed \/ ~profile.exists,
                             credits_balance |-> profile.credits_balance]
              IN Books(profile, [calls EXCEPT ![c] = ProfileSelected(calls[c], answer)])

\* the server answers the update: it has written the row, or it reports an
\* error and has written nothing
UpdateAnswered ==
    \E c \in 1..Len(calls) :
        /\ calls[c].pc = "update"
        /\ \/ Books([profile EXCEPT !.credits_balance = calls[c].value],
                    [calls EXCEPT ![c] = ProfileUpdated(calls[c], [kind |-> "ok"])])
           \/ \E e \in UpdateErrors :
                 Books(profile,
                       [calls EXCEPT ![c] = ProfileUpdated(calls[c], [kind |-> "error", error |-> e])])

\* the stored profiles: a row with a balance, or no row
Profiles ==
    [exists : {TRUE}, credits_balance : Balances]
    \cup {[exists |-> FALSE, credits_balance |-> 0]}

InitCredits ==
    /\ inp \in {i \in CropInputs : i.ctx /\ i.supported = AllTypes}
    /\ Holds(Idle)
    /\ geoIn = NoGeometry /\ geoOut = [site |-> "none"]
    /\ cfgIn = NoConfig /\ cfgOut = [site |-> "none"]
    /\ other = NoOther
    /\ svc = NoCall /\ prod = NoProduction
    /\ configured \in BOOLEAN
    /\ profile \in Profiles
    /\ opened = profile.credits_balance
    /\ calls = << >>
    /\ gen = [pc |-> "none"]
    /\ projects = [stored |-> FALSE, rows |-> << >>]
    /\ ffmpeg = [pc |-> "none"]

\* calls made one after the other
NextCredits == DeductCalled \/ SelectAnswered \/ UpdateAnswered

SpecCredits == InitCredits /\ [][NextCredits]_vars

\* calls that overlap
NextConcurrent ==
    DeductCalled \/ DeductCalledMeanwhile \/ SelectAnswered \/ UpdateAnswered

SpecConcurrent == InitCredits /\ [][NextConcurrent]_vars

(***************************************************************************)
(* App.handleGenerate: pay, generate, save; give the credits back when a   *)
(* step throws.  One action per await.                                     *)
(***************************************************************************)
\* what the header shows: the balance loadProfile last received, 0 before
\* the first load, the free tier default when the profile could not be read
ShownCredits == Balances \cup {DefaultCredits}

\* the component before the click: data.cost, data.isDirectSave, and
\* whether a template is selected and a session exists
Generators ==
    [pc : {"idle"}, ready : BOOLEAN, dataCost : Amounts, isDirectSave : BOOLEAN,
     userCredits : ShownCredits, isGenerating : {FALSE}, cost : {0}, call : {0},
     failed : {FALSE}, refunds : {0}, alerts : {0}, loading : {0}]

\* one task of handleGenerate: nothing else changes
Generates(g, p, cs) ==
    /\ gen' = g /\ profile' = p /\ calls' = cs
    /\ UNCHANGED <<inp, runVars, geoVars, cfgVars, other, appVars,
                   configured, opened, projects, ffmpeg>>

\* catch (error), up to `await refundCredits(session.user.id, cost)`
GenerateCatch(g) == [g EXCEPT !.pc = "refund", !.failed = TRUE, !.refunds = @ + 1]

\* the code after `await deductCredits(...)`, up to the next await
AfterDeduct(g, outcome) ==
    IF outcome.kind = "thrown" THEN GenerateCatch(g)
    ELSE [g EXCEPT !.userCredits = IF @ - g.cost > 0 THEN @ - g.cost ELSE 0,
                   !.pc = IF g.isDirectSave THEN "save" ELSE "generate"]

\* the click: guards, the local pre-check, deductCredits called
HandleGenerate ==
    /\ gen.pc = "idle"
    /\ LET cost == IF gen.dataCost = 0 THEN 1 ELSE gen.dataCost
       IN IF ~gen.ready THEN Generates([gen EXCEPT !.pc = "done"], profile, calls)
          ELSE IF gen.userCredits < cost
          THEN Generates([gen EXCEPT !.pc = "done", !.alerts = @ + 1], profile, calls)
          ELSE Generates([gen EXCEPT !.pc = "deduct", !.cost = cost, !.isGenerating = TRUE,
                                     !.call = Len(calls) + 1],
                         profile, Append(calls, DeductCredits(cost)))

\* await deductCredits(...) is over
DeductAnswered ==
    /\ gen.pc = "deduct" /\ calls[gen.call].pc = "done"
    /\ Generates(AfterDeduct(gen, calls[gen.call].outcome), profile, calls)

\* await generateVideo(...): a job id, or an error
VideoRequested ==
    /\ gen.pc = "generate"
    /\ \/ Generates([gen EXCEPT !.pc = "save"], profile, calls)
       \/ Generates(GenerateCatch(gen), profile, calls)

\* await saveProject(newProject): saved, with the profile reloaded and
\* finally run, or an error
NewProjectSaved ==
    /\ gen.pc = "save"
    /\ \/ Generates([gen EXCEPT !.pc = "done", !.loading = @ + 1, !.isGenerating = FALSE],
                    profile, calls)
       \/ Generates(GenerateCatch(gen), profile, calls)

\* await refundCredits(...): the amount has been credited to the stored
\* balance, or the call has thrown and the error is logged; then the alert
\* and finally
RefundAnswered ==
    /\ gen.pc = "refund"
    /\ \/ Generates([gen EXCEPT !.pc = "done", !.loading = @ + 1, !.alerts = @ + 1,
                                !.isGenerating = FALSE],
                    IF configured /\ profile.exists
                    THEN [profile EXCEPT !.credits_balance = @ + gen.cost] ELSE profile,
                    calls)
       \/ Generates([gen EXCEPT !.pc = "done", !.alerts = @ + 1, !.isGenerating = FALSE],
                    profile, calls)

\* loadProfile: getUserProfile answers with the stored balance, or with the
\* default profile
ProfileLoaded ==
    /\ gen.pc # "none" /\ gen.loading > 0
    /\ \E failed \in BOOLEAN :
          Generates([gen EXCEPT !.loading = @ - 1,
                                !.userCredits = IF configured /\ profile.exists /\ ~failed
                                                THEN profile.credits_balance
                                                ELSE DefaultCredits],
                    profile, calls)

InitGenerate ==
    /\ inp \in {i \in CropInputs : i.ctx /\ i.supported = AllTypes}
    /\ Holds(Idle)
    /\ geoIn = NoGeometry /\ geoOut = [site |-> "none"]
    /\ cfgIn = NoConfig /\ cfgOut = [site |-> "none"]
    /\ other = NoOther
    /\ svc = NoCall /\ prod = NoProduction
    /\ configured \in BOOLEAN
    /\ profile \in Profiles
    /\ opened = profile.credits_balance
    /\ calls = << >>
    /\ gen \in Generators
    /\ projects = [stored |-> FALSE, rows |-> << >>]
    /\ ffmpeg = [pc |-> "none"]

NextGenerate ==
    \/ HandleGenerate \/ SelectAnswered \/ UpdateAnswered \/ DeductAnswered
    \/ VideoRequested \/ NewProjectSaved \/ RefundAnswered \/ ProfileLoaded

SpecGenerate == InitGenerate /\ [][NextGenerate]_vars

(***************************************************************************)
(* ffmpegService.stitchVideoFrames: the primary API, the Rendi fallback,   *)
(* the first image as placeholder.  One action per await.                  *)
(***************************************************************************)
\* the two keys are non-empty string constants
KEY_FFMPEG_API == TRUE

KEY_RENDI == TRUE

Urls == {"blob:1", "blob:2", "https://image.pollinations.ai/p"}

\* the arguments of a call: images, audioUrl (FALSE: undefined) and
\* durationPerImage
FfmpegCalls ==
    [pc : {"idle"}, images : SeqsUpTo(Urls, MaxImages), audioUrl : BOOLEAN,
     durationPerImage : {5, 3}, tried : {<< >>}, warnings : {0}, outcome : {Pending}]

\* one task of the call: nothing else changes
Stitches(call) ==
    /\ ffmpeg' = call
    /\ UNCHANGED <<inp, runVars, geoVars, cfgVars, other, appVars,
                   configured, profile, opened, calls, gen, projects>>

\* callFfmpegApi: without the request schema it throws in every case
CallFfmpegApi(images, audioUrl, duration) ==
    IF ~KEY_FFMPEG_API THEN Thrown(NewError("No Key"))
    ELSE Thrown(NewError("Primary API Integration Pending Documentation Schema - Skipping to fallback"))

\* callRendiApi: likewise
CallRendiApi(images, audioUrl, duration) ==
    IF ~KEY_RENDI THEN Thrown(NewError("No Key"))
    ELSE Thrown(NewError("Fallback API Integration Pending Documentation Schema"))

\* images[0]
FirstImage(images) == IF Len(images) = 0 THEN "undefined" ELSE images[1]

\* after `await callRendiApi(...)`: its video, or the warnings and the
\* placeholder
AfterRendi(call, answer) ==
    IF answer.kind = "returned"
    THEN [call EXCEPT !.pc = "done", !.outcome = answer]
    ELSE [call EXCEPT !.pc = "done", !.warnings = @ + 2,
                      !.outcome = Returned([by |-> "placeholder",
                                            url |-> FirstImage(call.images)])]

\* a primary handler that gives up at once: the placeholder without the
\* fallback
AfterPrimaryWithoutFallback(call, answer) ==
    IF answer.kind = "returned"
    THEN [call EXCEPT !.pc = "done", !.outcome = answer]
    ELSE [call EXCEPT !.pc = "done", !.warnings = @ + 2,
                      !.outcome = Returned([by |-> "placeholder",
                                            url |-> FirstImage(call.images)])]

\* after `await callFfmpegApi(...)`: its video, or the warning and the
\* fallback called
AfterPrimary(call, answer) ==
    IF answer.kind = "returned"
    THEN [call EXCEPT !.pc = "done", !.outcome = answer]
    ELSE [call EXCEPT !.pc = "rendi", !.warnings = @ + 1,
                      !.tried = Append(@, "rendi")]

\* stitchVideoFrames(images, audioUrl, durationPerImage) up to its first await
FfmpegStitchCalled ==
    /\ ffmpeg.pc = "idle"
    /\ Stitches([ffmpeg EXCEPT !.pc = "primary", !.tried = Append(@, "primary")])

\* the promise of callFfmpegApi has settled
PrimaryAnswered ==
    /\ ffmpeg.pc = "primary"
    /\ Stitches(AfterPrimary(ffmpeg, CallFfmpegApi(ffmpeg.images, ffmpeg.audioUrl,
                                                   ffmpeg.durationPerImage)))

\* the promise of callRendiApi has settled
RendiAnswered ==
    /\ ffmpeg.pc = "rendi"
    /\ Stitches(AfterRendi(ffmpeg, CallRendiApi(ffmpeg.images, ffmpeg.audioUrl,
                                                ffmpeg.durationPerImage)))

InitFfmpeg ==
    /\ inp \in {i \in CropInputs : i.ctx /\ i.supported = AllTypes}
    /\ Holds(Idle)
    /\ geoIn = NoGeometry /\ geoOut = [site |-> "none"]
    /\ cfgIn = NoConfig /\ cfgOut = [site |-> "none"]
    /\ other = NoOther
    /\ svc = NoCall /\ prod = NoProduction
    /\ configured = FALSE
    /\ profile = [exists |-> FALSE, credits_balance |-> 0]
    /\ opened = 0
    /\ calls = << >>
    /\ gen = [pc |-> "none"]
    /\ projects = [stored |-> FALSE, rows |-> << >>]
    /\ ffmpeg \in FfmpegCalls

NextFfmpeg == FfmpegStitchCalled \/ PrimaryAnswered \/ RendiAnswered

SpecFfmpeg == InitFfmpeg /\ [][NextFfmpeg]_vars

(***************************************************************************)
(* The local project store (projectService.ts without a remote store): a   *)
(* JSON array under one localStorage key.  saveProject and                 *)
(* updateProjectStatus run without an await, each call is one task.        *)
(***************************************************************************)
ProjectIds == 1..MaxProjects

Statuses == {"pending", "completed"}

\* a Project as the callers build it: videoUrl, error and type may be
\* undefined
Projects ==
    [id : ProjectIds, status : Statuses, videoUrl : {"undefined", "blob:1"},
     error : {"undefined", "failed"}, type : {"undefined", "UGC_PRODUCT"}]

\* the properties of a row that may hold undefined
Optional == {"video_url", "error"}

\* JSON.parse(JSON.stringify(row)): a property whose value is undefined is
\* left out
Stringified(row) ==
    [k \in {j \in DOMAIN row : j \notin Optional \/ row[j] # "undefined"} |-> row[k]]

\* { ...old, ...row }
Spread(old, row) ==
    [k \in DOMAIN old \cup DOMAIN row |-> IF k \in DOMAIN row THEN row[k] ELSE old[k]]

\* getLocalProjects: the parsed item, [] when there is none
GetLocalProjects(store) == IF store.stored THEN store.rows ELSE << >>

\* saveLocalProjects
SaveLocalProjects(rows) ==
    [stored |-> TRUE, rows |-> [k \in 1..Len(rows) |-> Stringified(rows[k])]]

\* projects.findIndex(p => p.id === id), from 1; 0 when there is none
FindIndex(rows, id) ==
    IF \E k \in 1..Len(rows) : rows[k].id = id
    THEN CHOOSE k \in 1..Len(rows) :
            rows[k].id = id /\ \A j \in 1..(k - 1) : rows[j].id # id
    ELSE 0

\* the row saveProject builds
ProjectRow(project) ==
    [id |-> project.id, status |-> project.status, video_url |-> project.videoUrl,
     error |-> project.error,
     project_type |-> IF project.type = "undefined" THEN "AVATAR" ELSE project.type]

\* a saveProject that always inserts
SaveProjectAlwaysInserts(store, project) ==
    SaveLocalProjects(<<ProjectRow(project)>> \o GetLocalProjects(store))

\* saveProject, local branch
SaveProject(store, project) ==
    LET rows == GetLocalProjects(store)
        index == FindIndex(rows, project.id)
        row == ProjectRow(project)
    IN IF index > 0
       THEN SaveLocalProjects([rows EXCEPT ![index] = Spread(rows[index], row)])
       ELSE SaveLocalProjects(<<row>> \o rows)

\* the updates of updateProjectStatus that are truthy, as row properties
Updates ==
    [status : Statuses \cup {"undefined"}, video_url : {"undefined", "blob:1"},
     error : {"undefined", "failed"}]

Truthy(updates) == [k \in {j \in DOMAIN updates : updates[j] # "undefined"} |-> updates[k]]

\* updateProjectStatus, local branch
UpdateProjectStatus(store, id, updates) ==
    LET rows == GetLocalProjects(store)
        index == FindIndex(rows, id)
    IN IF index > 0
       THEN SaveLocalProjects([rows EXCEPT ![index] = Spread(rows[index], Truthy(updates))])
       ELSE store

\* one task of the store: nothing else changes
Stores(store) ==
    /\ projects' = store
    /\ UNCHANGED <<inp, runVars, geoVars, cfgVars, other, appVars,
                   configured, profile, opened, calls, gen, ffmpeg>>

ProjectSaved == \E project \in Projects : Stores(SaveProject(projects, project))

ProjectStatusUpdated ==
    \E id \in ProjectIds, updates \in Updates :
        Stores(UpdateProjectStatus(projects, id, updates))

InitStore ==
    /\ inp \in {i \in CropInputs : i.ctx /\ i.supported = AllTypes}
    /\ Holds(Idle)
    /\ geoIn = NoGeometry /\ geoOut = [site |-> "none"]
    /\ cfgIn = NoConfig /\ cfgOut = [site |-> "none"]
    /\ other = NoOther
    /\ svc = NoCall /\ prod = NoProduction
    /\ NoData

NextStore == ProjectSaved \/ ProjectStatusUpdated

SpecStore == InitStore /\ [][NextStore]_vars

(***************************************************************************)
(* Properties.                                                             *)
(***************************************************************************)
Stitching == inp.op = "stitch" /\ pc # "init"
Called == pc # "init"
NoNetworkIO == fetches = 0 /\ \A i \in 0..MaxImages : loads[i] = 0
LoopFailure == {"load", "play", "Error loading video source for crop. Likely CORS issue."}

\* C1: stitchVideoFrames called with an empty image list fails with an
\* InvalidInput error and has issued no image load and no audio fetch.
C1_EmptyInputRejected ==
    (Stitching /\ inp.images = 0 /\ inp.ctx) =>
        (settled = "rejected" /\ err = "InvalidInput" /\ NoNetworkIO)

\* C2: once stitchVideoFrames, given images to draw, has been rejected by its deadline, the audio
\* context is closed and the recorder is not recording, in every later state.
C2_TimeoutTeardown ==
    (Stitching /\ inp.images > 0 /\ settled = "rejected" /\ err = "timeout") =>
        (audioContext \in {"null", "closed"} /\ recorder # "recording")

\* C3: the recorder's onstop handler and the deadline handler never both run
\* in one invocation.
C3_StopTimeoutExclusive ==
    (inp.op = "crop" \/ inp.images > 0) => ~(timeoutRan /\ onstopRan)

\* C4: every invocation eventually settles: while its promise is pending the
\* deadline timer (30 s for stitchVideoFrames, 60 s for cropVideo) is armed
\* and not overdue, and a deadline that finds the promise pending rejects it
\* with the timeout error.
Deadline == IF inp.op = "stitch" THEN StitchTimeoutMs ELSE CropTimeoutMs

C4_EventuallySettles ==
    /\ Called ~> (settled # "pending")
    /\ [](Called /\ settled = "pending" =>
             timeoutArmed /\ deadline = Deadline /\ now <= deadline)
    /\ [][(settled = "pending" /\ timeoutRan') =>
             (settled' = "rejected" /\ err' = "timeout")]_vars

C4_Witness ==
    /\ timeoutRan /\ settled = "rejected" /\ err = "timeout"
    /\ ~onstopRan /\ now = Deadline

\* C5: when stitchVideoFrames or cropVideo has rejected for a reason other
\* than the deadline after the recorder was started, the recorder is no
\* longer recording and the audio context is closed.
C5_FailureTeardown ==
    (settled = "rejected" /\ err \in LoopFailure /\ startCalls > 0) =>
        (recorder # "recording" /\ audioContext \in {"null", "closed"})

\* C6: after the deadline handler of stitchVideoFrames has run, no frame is
\* drawn, recorder.stop() is not called and no object URL is created.
C6_AbandonedAfterDeadline ==
    [][(inp.op = "stitch" /\ inp.images > 0 /\ timeoutRan) =>
          (drawn' = drawn /\ stopCalls' = stopCalls /\ urls' = urls)]_vars

\* C7: a failed audio fetch or decode never rejects stitchVideoFrames: the
\* recorder is started in the same task (when the runtime can record at
\* all), a rejection afterwards has another cause, and a resolved call has
\* drawn every image into a stream without audio track.
C7_AudioDegradesGracefully ==
    (Stitching /\ audioFailed) =>
        /\ (SelectMimeType(inp.supported) \in inp.supported) => startCalls = 1
        /\ settled = "rejected" => err \in {"timeout", "load", "NotSupportedError"}
        /\ settled = "resolved" =>
              /\ tracks = [video |-> 1, audio |-> 0]
              /\ \A i \in 1..inp.images : drawn[i] > 0 /\ window[i] >= 0

C7_Witness ==
    Stitching /\ audioFailed /\ settled = "resolved" /\ inp.images > 0 /\ urls = 1

\* C8: with audio decoded to D ms and N images every image is drawn for
\* D / N ms (reached within one frame interval), whatever the caller passed;
\* the caller's value is the window only when the stream has no audio track.
C8_DurationRederived ==
    Stitching =>
        /\ audioBuffer > 0 =>
              durationPerImageMs = [num |-> audioBuffer, den |-> inp.images]
        /\ tracks.audio = 1 => audioBuffer > 0
        /\ audioBuffer = 0 =>
              durationPerImageMs = [num |-> inp.durationPerImageMs, den |-> 1]
        /\ \A i \in 1..inp.images :
              window[i] >= 0 =>
                 /\ ~Less(window[i], durationPerImageMs)
                 /\ Less(window[i] - FrameMs, durationPerImageMs)

C8_Witness ==
    /\ Stitching /\ audioBuffer > 0 /\ inp.images > 1
    /\ inp.durationPerImageMs * inp.images # audioBuffer
    /\ \A i \in 1..inp.images : window[i] * inp.images >= audioBuffer

\* C9: the render rectangle covers the target, exactly one offset is zero
\* when the aspect ratios differ and both are zero when they are equal.
SameRatio == geoIn.srcW * geoIn.targetH = geoIn.targetW * geoIn.srcH

C9_CoverFit ==
    geoOut.site # "none" =>
        LET r == geoOut.rect
        IN /\ Cmp(r.renderW, FromInt(geoIn.targetW)) >= 0
           /\ Cmp(r.renderH, FromInt(geoIn.targetH)) >= 0
           /\ SameRatio => (r.offsetX = 0 /\ r.offsetY = 0)
           /\ ~SameRatio => ((r.offsetX = 0) # (r.offsetY = 0))

\* C10: the recorder is started at most once, stopped at most once and
\* never stopped before it was started, and once the invocation has failed
\* the recording session takes no further transition.
C10_SessionTransitions ==
    /\ [](startCalls <= 1 /\ stopCalls <= 1 /\ (stopCalls > 0 => startCalls > 0))
    /\ [][(inp.images > 0 /\ settled = "rejected") => recorder' = recorder]_vars

\* C11: in one invocation the chunks are put into a Blob and an object URL
\* is created at most once, by the recorder's onstop handler, and exactly
\* once when the invocation resolves.
C11_AssetOnce ==
    /\ urls <= 1
    /\ urls = 1 <=> onstopRan
    /\ settled = "resolved" => urls = 1
    /\ ~onstopRan => blob = << >>

C11_Witness == settled = "resolved" /\ urls = 1 /\ Len(delivered) > 1

\* C12: the parts of the Blob are exactly the non-empty chunks the recorder
\* delivered before its stop event, in the order of their delivery.
NonEmpty(data) == data.size > 0

C12_PayloadInArrivalOrder ==
    /\ chunks = SelectSeq(delivered, NonEmpty)
    /\ onstopRan => blob = SelectSeq(delivered, NonEmpty)

C12_Witness ==
    /\ onstopRan /\ Len(blob) >= 2 /\ Len(delivered) > Len(blob)
    /\ delivered[1].size = 0

C14_FirstSupportedEncoding ==
    cfgOut.site # "none" =>
        \A i \in 1..Len(mimeTypes) :
            (/\ mimeTypes[i] \in cfgIn.supported
             /\ \A j \in 1..(i - 1) : mimeTypes[j] \notin cfgIn.supported)
            => cfgOut.mimeType = mimeTypes[i]

C14_Witness ==
    /\ cfgOut.site = "cropVideo" /\ cfgOut.mimeType = "video/webm; codecs=vp8"
    /\ cfgIn.supported = {"video/webm; codecs=vp8", "video/mp4"}

\* C15: a recorder exists only with an encoding the runtime reports as
\* supported; when the runtime supports no entry of the preference list no
\* recorder is constructed, and the invocation, if still pending, is
\* rejected with the recorder's NotSupportedError.
C15_UnsupportedEncodingFails ==
    /\ [](recorder # "none" => mimeType \in inp.supported)
    /\ []((mimeType # "none" /\ mimeType \notin inp.supported) =>
             (recorder = "none" /\ settled = "rejected" /\ pc = "done"))
    /\ [][(settled = "pending" /\ mimeType' # mimeType /\ mimeType' \notin inp.supported)
             => (settled' = "rejected" /\ err' = "NotSupportedError")]_vars

C15_Witness ==
    /\ inp.op = "stitch" /\ inp.supported = {} /\ mimeType = "video/webm"
    /\ recorder = "none" /\ settled = "rejected" /\ err = "NotSupportedError"
    /\ loads[1] = 1

\* C16: in stitchVideoFrames with a prepared audio track, audio playback
\* is started when the recorder has been started and the audio context is
\* running, and no frame is drawn before it is started.
FrameDrawn == \E i \in 1..MaxImages : drawn[i] > 0
AudioPlayed == sourceNode \in {"started", "stopped"}

C16_AudioBeforeFirstFrame ==
    /\ []((Stitching /\ tracks.audio = 1 /\ FrameDrawn) => AudioPlayed)
    /\ []((Stitching /\ AudioPlayed) =>
             (startCalls = 1 /\ audioContext \in {"running", "closed"}))
    /\ [][(sourceNode = "created" /\ sourceNode' = "started") =>
             (~FrameDrawn /\ startCalls' = 1 /\ audioContext' = "running")]_vars

C16_Witness ==
    /\ Stitching /\ tracks.audio = 1 /\ sourceNode = "started"
    /\ audioContext = "running" /\ drawn[1] = 1 /\ recorder = "recording"

\* C17: stitchVideoFrames draws its images in input order: a frame of an
\* image is drawn only when every earlier image has had its whole window
\* and no later image has been drawn, an image is left only when its window
\* has elapsed, and recorder.stop() is called only after the last window.
C17_DrawnInInputOrder ==
    /\ [](Stitching =>
            \A i \in 1..inp.images :
                /\ (i < inp.images /\ drawn[i + 1] > 0) => window[i] >= 0
                /\ window[i] >= 0 =>
                      (drawn[i] > 0 /\ ~Less(window[i], durationPerImageMs))
                /\ stopCalls > 0 => window[i] >= 0)
    /\ [][\A i \in 1..MaxImages :
             drawn'[i] # drawn[i] =>
                /\ drawn'[i] = drawn[i] + 1 /\ window[i] < 0 /\ stopCalls = 0
                /\ \A j \in 1..MaxImages :
                      /\ j < i => window[j] >= 0
                      /\ j > i => drawn[j] = 0]_vars

C17_Witness ==
    /\ Stitching /\ inp.images > 1 /\ stopCalls = 1
    /\ \A i \in 1..inp.images : drawn[i] > 1 /\ window[i] >= 0

\* C18: when the load of an image of a non-empty list fails,
\* stitchVideoFrames is rejected with a media-load error, an Error whose
\* message names the cause, and it has not produced an asset.
C18_LoadFailureRejects ==
    (Stitching /\ inp.images > 0 /\ failedLoad # "none") =>
        /\ settled = "rejected" /\ err = "load"
        /\ RejectionValue(err).kind = "Error" /\ RejectionValue(err).message
        /\ urls = 0

\* C19: two invocations of stitchVideoFrames/cropVideo interleaved on one
\* event loop share no mutable state: every chunk in an invocation's chunk
\* list and in its asset was produced by that invocation's own recorder,
\* and a task of one invocation (a data, stop, error or timeout handler
\* included) leaves the other invocation's state exactly as it was.
OwnChunks(id, run) ==
    /\ \A k \in 1..Len(run.chunks) : run.chunks[k].rec = id
    /\ \A k \in 1..Len(run.blob) : run.blob[k].rec = id

C19_NoSharedState ==
    /\ [](OwnChunks(inp.id, Cur) /\ OwnChunks(other.inp.id, other.run))
    /\ [][inp' = inp => other' = other]_vars

C19_Witness ==
    /\ inp.op = "stitch" /\ timeoutRan /\ settled = "rejected"
    /\ other.inp.op = "crop" /\ other.run.settled = "resolved"
    /\ Len(other.run.blob) > 0

\* C20: in cropVideo, while the source plays and has not ended, the next
\* animation frame is requested, also when playback was paused in between,
\* and recorder.stop() has been called exactly when the source has ended.
Cropping == inp.op = "crop" /\ pc # "init"

C20_RenderLoopUntilEnded ==
    Cropping =>
        /\ (/\ playPromise = "fulfilled" /\ ~video.paused
            /\ ~video.ended /\ ~video.error) => rafPending
        /\ stopCalls > 0 <=> video.ended

\* C21: at the moment stitchVideoFrames or cropVideo resolves, the audio
\* context (if one was created) has been closed and every track of the
\* combined stream has been stopped.
C21_ReleasedBeforeResolve ==
    (settled = "resolved" /\ (inp.op = "stitch" => inp.images > 0)) =>
        /\ audioContext \in {"null", "closed"}
        /\ LiveTracks(Cur) = 0

\* C22: during one stitchVideoFrames invocation every image of the list is
\* requested at most once, the first image, which also sizes the canvas,
\* included.
C22_LoadedAtMostOnce ==
    (Stitching /\ inp.images > 0) => \A i \in 1..MaxImages : loads[i] <= 1

\* C23: generateScriptContent returns the templated placeholder script
\* whenever the upstream call fails with status 429 or RESOURCE_EXHAUSTED,
\* and rethrows every other upstream error unchanged.
QuotaExhausted(error) ==
    error.status = 429 \/ Includes(error.message, "RESOURCE_EXHAUSTED")

C23_PlaceholderOnQuotaOnly ==
    (/\ svc.fn = "generateScriptContent" /\ svc.pc = "settled"
     /\ svc.response.kind = "error") =>
        svc.outcome = IF QuotaExhausted(svc.response.error)
                      THEN Returned([type |-> "placeholder"])
                      ELSE Thrown(svc.response.error)

\* C25: in generateStory a response whose text does not parse (cut off or
\* malformed) is rejected with the truncation or the parse error and never
\* with the quota error, no response with a text ends in the quota error,
\* and an upstream error with status 429 is always rejected with the quota
\* error.
StoryCalled == svc.fn = "generateStory" /\ svc.pc = "settled"

C25_ParseAndQuotaDistinct ==
    StoryCalled =>
        /\ (/\ svc.response.kind = "text"
            /\ StoryCleanup(svc.response.text).body.kind # "empty"
            /\ ~Parses(StoryCleanup(svc.response.text))) =>
               svc.outcome \in
                   {Thrown(NewError("Story generation was too long and got cut off. Please try a simpler idea.")),
                    Thrown(NewError("Failed to parse story manifest. Please try again."))}
        /\ svc.response.kind = "text" =>
               svc.outcome # Thrown(NewError("Daily AI quota exceeded (Story Generation)."))
        /\ (svc.response.kind = "error" /\ svc.response.error.status = 429) =>
               svc.outcome = Thrown(NewError("Daily AI quota exceeded (Story Generation)."))

C25_Witness ==
    /\ StoryCalled /\ svc.response.kind = "text"
    /\ svc.response.text.body.kind = "cut" /\ svc.response.text.body.long
    /\ svc.outcome.kind = "thrown"
    /\ svc.outcome.error.message =
           <<"Story generation was too long and got cut off. Please try a simpler idea.">>

\* C26: every manifest generateStory returns has exactly 5 scenes; a
\* response with any other scene count is rejected.
C26_ExactlyFiveScenes ==
    (StoryCalled /\ svc.response.kind = "text") =>
        /\ svc.outcome.kind = "returned" => svc.outcome.value.scenes = RequiredScenes
        /\ (/\ Parses(StoryCleanup(svc.response.text))
            /\ svc.response.text.body.scenes # RequiredScenes) =>
               svc.outcome.kind = "thrown"

\* C24: when the upstream call fails with status 429, generateStory returns
\* a fallback value instead of rejecting, while generateVeoVideo and
\* generateVeoProductVideo reject with the quota-exceeded message.
C24_StoryDegradesVideoRejects ==
    (/\ svc.pc = "settled" /\ svc.response.kind = "error"
     /\ svc.response.error.status = 429) =>
        /\ svc.fn = "generateStory" => svc.outcome.kind = "returned"
        /\ svc.fn \in VeoFunctions =>
               svc.outcome = Thrown(NewError("Daily AI quota exceeded. Please try again later or check your billing."))

\* C28: generateVeoVideo and generateVeoProductVideo leave the polling loop
\* only with an operation that is done: a URL is returned only for a done
\* operation with a video, a done operation without a video is rejected
\* with the no-URI error, an operation that is not done keeps the call
\* sleeping or polling, and once the server has finished the operation the
\* call settles.
VeoSafe ==
    svc.fn \in VeoFunctions =>
        /\ svc.outcome.kind = "returned" =>
               svc.operation.done /\ svc.operation.uri /\ svc.server.done
        /\ (svc.pc = "settled" /\ svc.response.kind = "operation") =>
               /\ svc.operation.done
               /\ ~svc.operation.uri => svc.outcome = Thrown(NoVideoUri(svc.fn))
        /\ (svc.response.kind = "operation" /\ ~svc.operation.done) =>
               svc.pc \in {"sleep", "poll"}

C28_PolledUntilDone ==
    /\ []VeoSafe
    /\ (svc.fn \in VeoFunctions /\ svc.server.done) ~> (svc.pc = "settled")

C28_Witness ==
    /\ svc.fn = "generateVeoVideo" /\ svc.polls >= 2
    /\ svc.pc = "settled" /\ svc.outcome.kind = "returned"

\* C27: synthesizeAudio rejects only when both speech providers have been
\* tried and have failed, whichever of them was tried first.
C27_RejectsAfterBothProviders ==
    (svc.fn = "synthesizeAudio" /\ svc.outcome.kind = "thrown") =>
        {svc.tried[k] : k \in 1..Len(svc.tried)} = {"elevenlabs", "gemini"}

\* C29: in runProduction a failed scene image and a failed audio synthesis
\* are passed over, and the run fails only in the story step or in the
\* assembly step, the latter also when no image at all was produced.
ProductionFailed == prod.pc = "done" /\ prod.errorMsg # << >>

C29_OnlyWholeStepsAbort ==
    /\ ProductionFailed => prod.step \in {"SCRIPT", "ASSEMBLY"}
    /\ prod.step \in {"ASSEMBLY", "COMPLETE"} => prod.i = prod.scenes
    /\ (prod.pc = "assembly" \/ prod.videoUrl) => \E k \in 1..prod.scenes : prod.images[k]

\* C30: stitchVideoFrames resolves only when its draw loop and the stop of
\* the recorder were over before the 30 s deadline.  A run whose images
\* together are to be shown for 30000 ms or more (N times the per-image
\* duration, which is the decoded audio duration when there is one) never
\* resolves: it always ends rejected, and with the timeout error unless an
\* image failed to load.
LongRun ==
    /\ Stitching /\ inp.images > 0 /\ startCalls > 0
    /\ durationPerImageMs.den > 0
    /\ inp.images * durationPerImageMs.num >= StitchTimeoutMs * durationPerImageMs.den

C30_ResolvesOnlyBeforeDeadline ==
    /\ []((Stitching /\ settled = "resolved") =>
             /\ ~timeoutRan /\ now < StitchTimeoutMs /\ stopCalls = 1
             /\ \A i \in 1..inp.images : window[i] >= 0)
    /\ [](LongRun =>
             /\ settled # "resolved"
             /\ (settled = "rejected" /\ failedLoad = "none") => err = "timeout")
    /\ LongRun ~> (settled = "rejected")

C30_Witness ==
    /\ LongRun /\ audioBuffer >= StitchTimeoutMs /\ inp.images > 1
    /\ settled = "rejected" /\ err = "timeout" /\ failedLoad = "none"
    /\ window[1] >= 0

\* C31: whenever stitchVideoFrames or cropVideo has settled before its
\* deadline handler ran, the deadline timer has been cancelled, so the
\* handler never runs on a settled promise.
C31_TimerCancelledOnSettle ==
    (Called /\ settled # "pending" /\ ~timeoutRan) => ~timeoutArmed

\* the last call of deductCredits has finished, for a user whose profile
\* row exists in the configured store
Deducted(c) ==
    /\ c = Len(calls) /\ calls[c].pc = "done"
    /\ configured /\ profile.exists

\* C32: a finished deductCredits on an existing profile has either thrown
\* 'Insufficient credits', the balance being smaller than the amount and
\* left as it was, or returned with the stored balance lowered by exactly
\* the amount; and the stored balance is never negative.
C32_DeductsOrRefuses ==
    /\ \A c \in 1..Len(calls) :
          Deducted(c) =>
             \/ /\ calls[c].outcome = Thrown(NewError("Insufficient credits"))
                /\ calls[c].before < calls[c].amount
                /\ profile.credits_balance = calls[c].before
             \/ /\ calls[c].outcome.kind = "returned"
                /\ profile.credits_balance = calls[c].before - calls[c].amount
    /\ profile.credits_balance >= 0

\* the amounts of the calls that returned without throwing
RECURSIVE Charged(_)
Charged(c) ==
    IF c = 0 THEN 0
    ELSE Charged(c - 1)
         + (IF calls[c].outcome.kind = "returned" THEN calls[c].amount ELSE 0)

\* every call has finished, and each one that returned had its update
\* carried out
AllDeducted ==
    /\ Len(calls) > 0
    /\ \A c \in 1..Len(calls) :
          /\ calls[c].pc = "done"
          /\ calls[c].outcome.kind = "returned" => calls[c].updated

\* C33: once the deductCredits calls of a user have finished, whatever
\* their interleaving, the stored balance is the initial balance minus the
\* amounts of the calls that returned.
C33_NoLostDeduction ==
    AllDeducted => profile.credits_balance = opened - Charged(Len(calls))

\* handleGenerate has run its catch block and returned
GenerateFailed == gen.pc = "done" /\ gen.failed

\* C34: after handleGenerate has failed, the stored balance is what it was
\* before the call: one refund when the credits had been deducted, none
\* when the deduction itself had failed.
C34_RefundedExactlyOnce ==
    GenerateFailed =>
        /\ profile.credits_balance = opened
        /\ gen.refunds = (IF calls[gen.call].updated THEN 1 ELSE 0)

\* C35: stitchVideoFrames of the ffmpeg service tries the primary API
\* first and the Rendi fallback only after the primary has failed, returns
\* the first image as placeholder only after both have failed, and never
\* rejects.
C35_ProvidersInOrder ==
    ffmpeg.pc # "none" =>
        /\ ffmpeg.tried \in {<< >>, <<"primary">>, <<"primary", "rendi">>}
        /\ ffmpeg.pc = "rendi" => ffmpeg.warnings = 1
        /\ ffmpeg.pc = "done" =>
              /\ ffmpeg.outcome.kind = "returned"
              /\ ffmpeg.outcome.value.by = "placeholder" =>
                    /\ ffmpeg.tried = <<"primary", "rendi">>
                    /\ ffmpeg.outcome.value.url = FirstImage(ffmpeg.images)

\* the placeholder has been returned for a call with images
C35_Witness ==
    /\ ffmpeg.pc = "done" /\ Len(ffmpeg.images) > 0
    /\ ffmpeg.outcome.kind = "returned" /\ ffmpeg.outcome.value.by = "placeholder"

\* the steps of the workflow, in the order of the progress bar
StepOrder == <<"INPUT", "SCRIPT", "VISUALS", "AUDIO", "ASSEMBLY", "COMPLETE">>

StepIndex(step) == CHOOSE k \in 1..Len(StepOrder) : StepOrder[k] = step

\* C36: during runProduction the step moves from one stage to the next one
\* only, SCRIPT, VISUALS, AUDIO, ASSEMBLY, COMPLETE; it becomes COMPLETE
\* only when the awaited assembleVideo has resolved, with the video URL
\* stored; a run that threw rests at the stage that failed with an error
\* message set, until a retry starts over at SCRIPT; and isProcessing is
\* false once the run is over.
C36_StepsInOrder ==
    /\ [](prod.step # "none" =>
            /\ prod.step = "COMPLETE" => (prod.videoUrl /\ prod.pc = "done")
            /\ prod.pc = "done" => ~prod.isProcessing
            /\ (prod.pc = "done" /\ prod.step # "COMPLETE") => prod.errorMsg # << >>
            /\ prod.errorMsg # << >> => prod.pc = "done")
    /\ [][prod.step # "none" =>
            /\ prod.step' # prod.step =>
                  \/ StepIndex(prod.step') = StepIndex(prod.step) + 1
                  \/ prod.pc = "done" /\ prod.pc' = "story" /\ prod.step' = "SCRIPT"
            /\ prod.step' = "COMPLETE" /\ prod.step # "COMPLETE" => prod.pc = "assembly"
            /\ prod.pc = "done" /\ prod' # prod => prod.pc' = "story"]_vars

\* a run has failed in the assembly, after images were produced
C36_Witness ==
    /\ prod.step = "ASSEMBLY" /\ prod.pc = "done" /\ prod.completedImages > 0
    /\ prod.errorMsg # << >> /\ ~prod.isProcessing

\* the rows of the store as the next call will read them
StoredRows == GetLocalProjects(projects)

\* C37: in the local store no two rows carry the same project id; saving a
\* project whose id is stored replaces that row where it stands and
\* leaves the other rows alone, saving a new id puts the row in front of
\* the others, and a second save of the same project changes nothing.
C37_OneRowPerId ==
    /\ \A j, k \in 1..Len(StoredRows) : StoredRows[j].id = StoredRows[k].id => j = k
    /\ \A project \in Projects :
          LET index == FindIndex(StoredRows, project.id)
              saved == SaveProject(projects, project)
          IN /\ saved.stored
             /\ index > 0 =>
                   /\ Len(saved.rows) = Len(StoredRows)
                   /\ saved.rows[index] = Stringified(ProjectRow(project))
                   /\ \A k \in 1..Len(StoredRows) : k # index => saved.rows[k] = StoredRows[k]
             /\ index = 0 =>
                   saved.rows = <<Stringified(ProjectRow(project))>> \o StoredRows
             /\ SaveProject(saved, project) = saved

\* every id is stored, so that a further save has to replace a row, and a
\* row behind the first one holds a finished project: its video, no error
C37_Witness ==
    /\ Len(StoredRows) = MaxProjects
    /\ \E k \in 2..Len(StoredRows) :
          /\ StoredRows[k].status = "completed"
          /\ "video_url" \in DOMAIN StoredRows[k]
          /\ "error" \notin DOMAIN StoredRows[k]

\* the scale factor of the reference: max(targetW / srcW, targetH / srcH)
ReferenceScale ==
    LET scaleX == DivInt(geoIn.targetW, geoIn.srcW)
        scaleY == DivInt(geoIn.targetH, geoIn.srcH)
    IN IF Cmp(scaleX, scaleY) >= 0 THEN scaleX ELSE scaleY

\* C38: the rectangle a draw site computes is the one of the reference
\* formula: the natural size times max(targetW / srcW, targetH / srcH), each
\* offset (target - render) / 2 on its axis, hence no offset above zero.
C38_ReferenceGeometry ==
    geoOut.site # "none" =>
        LET r == geoOut.rect
        IN /\ Cmp(r.renderW, MulInt(geoIn.srcW, ReferenceScale)) = 0
           /\ Cmp(r.renderH, MulInt(geoIn.srcH, ReferenceScale)) = 0
           /\ r.offsetX = Cmp(FromInt(geoIn.targetW), r.renderW)
           /\ r.offsetY = Cmp(FromInt(geoIn.targetH), r.renderH)
           /\ r.offsetX <= 0 /\ r.offsetY <= 0

=============================================================================
